---- MODULE Spec2Model ----
(***************************************************************************)
(* A model of PyCircuitSolver: the current-voltage characteristic algebra  *)
(* (current_voltage_characteristic.py), the two-terminal component tree    *)
(* (two_terminal_component.py) and the circuit solver with its reducer     *)
(* (circuit_solver.py).                                                    *)
(*                                                                         *)
(* Python objects live in a heap indexed by object identity; a method that *)
(* mutates objects is an operator from a heap to a heap, and a raised      *)
(* exception is the field exc of the operator's result.  Python's complex  *)
(* numbers are modelled exactly as complex rationals <<re, im, den>>.      *)
(***************************************************************************)
EXTENDS Integers, Sequences, FiniteSets, TLC

VARIABLES
    iv,               \* operands and result of the last IVChar operation
    heap,             \* object identity -> two-terminal component object
    last,             \* the client call that produced the current state
    nops,             \* number of client calls made so far
    branches,         \* CircuitSolver.branches (the reduced branch list)
    node_potentials,  \* CircuitSolver.node_potentials
    node_currents,    \* CircuitSolver.node_currents
    branch_currents,  \* CircuitSolver.branch_currents
    reference_node,   \* CircuitSolver.reference_node (0 is None)
    roots,            \* the components the client holds that are part of no composite
    params,           \* Optimizer.params
    history,          \* the local list history of solve
    sv                \* control state of the solver run

vars == <<iv, heap, last, nops, roots, branches, node_potentials, node_currents,
          branch_currents, reference_node, params, history, sv>>

----------------------------------------------------------------------------
(* Complex rationals: <<re, im, den>> stands for (re + im*j)/den, den > 0, *)
(* in lowest terms, so that equal numbers are equal tuples.                *)

Abs(n) == IF n < 0 THEN -n ELSE n

RECURSIVE GCD(_, _)
GCD(m, n) == IF n = 0 THEN m ELSE GCD(n, m % n)

CNorm(re, im, den) ==
    LET g == GCD(GCD(Abs(re), Abs(im)), Abs(den))
        s == IF den < 0 THEN -1 ELSE 1
    IN  <<(s * re) \div g, (s * im) \div g, (s * den) \div g>>

CInt(n) == <<n, 0, 1>>
CZero == CInt(0)
COne == CInt(1)
CAdd(x, y) == CNorm(x[1] * y[3] + y[1] * x[3], x[2] * y[3] + y[2] * x[3], x[3] * y[3])
CNeg(x) == <<-x[1], -x[2], x[3]>>
CSub(x, y) == CAdd(x, CNeg(y))
CMul(x, y) == CNorm(x[1] * y[1] - x[2] * y[2], x[1] * y[2] + x[2] * y[1], x[3] * y[3])
\* x / y for y # 0: x * conj(y) / |y|^2
CDiv(x, y) ==
    CNorm((x[1] * y[1] + x[2] * y[2]) * y[3],
          (x[2] * y[1] - x[1] * y[2]) * y[3],
          x[3] * (y[1] * y[1] + y[2] * y[2]))
\* abs(x)**2, a real number
CAbs2(x) == CNorm(x[1] * x[1] + x[2] * x[2], 0, x[3] * x[3])

----------------------------------------------------------------------------
(* CurrentVoltageCharacteristic: a*V + b*I = c, a stored as a boolean.     *)

IVChar(a, b, c) == [a |-> a, b |-> b, c |-> c]

has_fixed_current(x) == ~x.a
has_fixed_voltage(x) == x.a /\ x.b = CZero

open_circuit == IVChar(FALSE, COne, CZero)
short_circuit == IVChar(TRUE, CZero, CZero)

\* The outcome of a call: exc is "" when the call returned val, and the
\* name of the raised exception otherwise.
Ret(v) == [exc |-> "", val |-> v]
Raise(e) == [exc |-> e, val |-> short_circuit]

IVChar_invert(x) == IVChar(x.a, x.b, CNeg(x.c))

IVChar_and_swapped(x, y) ==
    IF has_fixed_current(x) /\ has_fixed_current(y) THEN Raise("Exception")
    ELSE IF has_fixed_current(x) THEN Ret(y)
    ELSE IF has_fixed_current(y) THEN Ret(x)
    ELSE Ret(IVChar(TRUE, CAdd(x.b, y.b), CAdd(x.c, y.c)))

IVChar_and(x, y) ==
    IF has_fixed_current(x) /\ has_fixed_current(y) THEN Raise("Exception")
    ELSE IF has_fixed_current(x) THEN Ret(x)
    ELSE IF has_fixed_current(y) THEN Ret(y)
    ELSE Ret(IVChar(TRUE, CAdd(x.b, y.b), CAdd(x.c, y.c)))

IVChar_or(x, y) ==
    IF has_fixed_voltage(x) /\ has_fixed_voltage(y) THEN Raise("Exception")
    ELSE IF has_fixed_current(x) THEN
        IF has_fixed_current(y)
        THEN Ret(IVChar(FALSE, COne, CAdd(x.c, y.c)))
        ELSE Ret(IVChar(TRUE, y.b, CAdd(y.c, CMul(y.b, x.c))))
    ELSE
        IF has_fixed_current(y)
        THEN Ret(IVChar(TRUE, x.b, CAdd(x.c, CMul(x.b, y.c))))
        ELSE IF CAdd(x.b, y.b) = CZero THEN Raise("ZeroDivisionError")
        ELSE Ret(IVChar(TRUE,
                        CDiv(CMul(x.b, y.b), CAdd(x.b, y.b)),
                        CDiv(CAdd(CMul(x.c, y.b), CMul(y.c, x.b)), CAdd(x.b, y.b))))

current_at_voltage(x, voltage) ==
    IF has_fixed_voltage(x) THEN [exc |-> "Exception", val |-> CZero]
    ELSE IF has_fixed_current(x) THEN [exc |-> "", val |-> x.c]
    ELSE [exc |-> "", val |-> CDiv(CSub(voltage, x.c), CNeg(x.b))]

voltage_at_current(x, current) ==
    IF has_fixed_current(x) THEN [exc |-> "Exception", val |-> CZero]
    ELSE IF has_fixed_voltage(x) THEN [exc |-> "", val |-> x.c]
    ELSE [exc |-> "", val |-> CAdd(CMul(CNeg(x.b), current), x.c)]

----------------------------------------------------------------------------
(* TwoTerminalComponent objects.  kind is the ComponentType; a composite   *)
(* keeps its regular children in components and its singular source        *)
(* (fixed_current_component / fixed_voltage_component) in fixed, 0 for     *)
(* None.  has_state is FALSE until _state is first assigned, has_char is   *)
(* FALSE while _characteristic is None.                                    *)

NewObj(kind, value) ==
    [kind |-> kind, value |-> value, orientation |-> 1,
     components |-> <<>>, fixed |-> 0,
     has_state |-> FALSE, current |-> CZero, voltage |-> CZero,
     has_char |-> FALSE, char |-> short_circuit, omega |-> 0]

IdealVoltageSource(emf) == NewObj("IDEAL_VOLTAGE_SOURCE", emf)
IdealCurrentSource(amperage) == NewObj("IDEAL_CURRENT_SOURCE", amperage)
Resistor(resistance) == NewObj("RESISTOR", resistance)
Capacitor(capacitance) == NewObj("CAPACITOR", capacitance)
Inductor(inductance) == NewObj("INDUCTOR", inductance)
Impedance(impedance) == NewObj("IMPEDANCE", impedance)
Series == NewObj("SERIES", CZero)
Parallel == NewObj("PARALLEL", CZero)

\* A heap and the outcome of a call made on it.
HRet(h, v) == [exc |-> "", val |-> v, h |-> h]
HRaise(h, e) == [exc |-> e, val |-> short_circuit, h |-> h]

COrient(x, o) == CMul(x, CInt(o))

RECURSIVE current_voltage_characteristic(_, _, _, _)
RECURSIVE calculate_current_voltage_characteristic(_, _, _)
RECURSIVE fold_characteristic(_, _, _, _, _, _)

\* The loop of Series/Parallel.calculate_current_voltage_characteristic:
\* characterstic = characterstic & (or |) child characteristic, with_orientation.
fold_characteristic(h, comps, i, acc, omega, series) ==
    LET combine(r) ==
            LET continue(c) ==
                    IF c.exc # "" THEN HRaise(r.h, c.exc)
                    ELSE fold_characteristic(r.h, comps, i + 1, c.val, omega, series)
            IN  IF r.exc # "" THEN r
                ELSE continue(IF series THEN IVChar_and(acc, r.val)
                              ELSE IVChar_or(acc, r.val))
    IN  IF i > Len(comps) THEN HRet(h, acc)
        ELSE combine(current_voltage_characteristic(h, comps[i], omega, TRUE))

calculate_current_voltage_characteristic(h, id, omega) ==
    LET o == h[id] IN
    CASE o.kind = "IDEAL_VOLTAGE_SOURCE" -> HRet(h, IVChar(TRUE, CZero, o.value))
      [] o.kind = "IDEAL_CURRENT_SOURCE" -> HRet(h, IVChar(FALSE, COne, o.value))
      [] o.kind = "RESISTOR" -> HRet(h, IVChar(TRUE, CNeg(o.value), CZero))
      [] o.kind = "IMPEDANCE" -> HRet(h, IVChar(TRUE, CNeg(o.value), CZero))
      [] o.kind = "CAPACITOR" ->
            IF o.value = CZero THEN HRaise(h, "AssertionError")
            ELSE IF omega = 0 THEN HRet(h, open_circuit)
            ELSE HRet(h, IVChar(TRUE, CDiv(<<0, 1, 1>>, CMul(CInt(omega), o.value)), CZero))
      [] o.kind = "INDUCTOR" ->
            IF omega = 0 THEN HRet(h, short_circuit)
            ELSE HRet(h, IVChar(TRUE, CMul(<<0, -1, 1>>, CMul(CInt(omega), o.value)), CZero))
      [] o.kind = "SERIES" ->
            IF o.fixed # 0
            THEN current_voltage_characteristic(h, o.fixed, omega, TRUE)
            ELSE fold_characteristic(h, o.components, 1, short_circuit, omega, TRUE)
      [] o.kind = "PARALLEL" ->
            IF o.fixed # 0
            THEN current_voltage_characteristic(h, o.fixed, omega, TRUE)
            ELSE fold_characteristic(h, o.components, 1, open_circuit, omega, FALSE)

\* The cached characteristic: recomputed when none is cached or the cached
\* one was computed at another omega; self.omega is assigned before the
\* calculation, _characteristic only when the calculation returns.
current_voltage_characteristic(h, id, omega, with_orientation) ==
    LET return(hf) ==
            HRet(hf, IF with_orientation /\ hf[id].orientation = -1
                     THEN IVChar_invert(hf[id].char) ELSE hf[id].char)
        store(r) ==
            IF r.exc # "" THEN r
            ELSE return([r.h EXCEPT ![id].has_char = TRUE, ![id].char = r.val])
    IN  IF ~h[id].has_char \/ h[id].omega # omega
        THEN store(calculate_current_voltage_characteristic(
                       [h EXCEPT ![id].omega = omega], id, omega))
        ELSE return(h)

\* TwoTerminalComponent.apply_current / apply_voltage (the base methods).
TwoTerminalComponent_apply_current(h, id, current, omega) ==
    LET set_state(r) ==
            LET store(v) ==
                    IF v.exc # "" THEN HRaise(r.h, v.exc)
                    ELSE HRet([r.h EXCEPT ![id].has_state = TRUE,
                                          ![id].current = current,
                                          ![id].voltage = v.val], CZero)
            IN  IF r.exc # "" THEN HRaise(r.h, r.exc)
                ELSE store(voltage_at_current(r.val, current))
    IN  set_state(current_voltage_characteristic(h, id, omega, FALSE))

TwoTerminalComponent_apply_voltage(h, id, voltage, omega) ==
    LET set_state(r) ==
            LET store(c) ==
                    IF c.exc # "" THEN HRaise(r.h, c.exc)
                    ELSE HRet([r.h EXCEPT ![id].has_state = TRUE,
                                          ![id].current = c.val,
                                          ![id].voltage = voltage], CZero)
            IN  IF r.exc # "" THEN HRaise(r.h, r.exc)
                ELSE store(current_at_voltage(r.val, voltage))
    IN  set_state(current_voltage_characteristic(h, id, omega, FALSE))

RECURSIVE apply_current(_, _, _, _, _)
RECURSIVE apply_voltage(_, _, _, _, _)
RECURSIVE Series_apply_current_loop(_, _, _, _, _, _)
RECURSIVE Series_apply_voltage_loop(_, _, _, _, _)
RECURSIVE Parallel_apply_current_loop(_, _, _, _, _, _)
RECURSIVE Parallel_apply_voltage_loop(_, _, _, _, _, _)

\* for component in self.components:
\*     component.apply_current(current * component.orientation, omega, recursive)
Series_apply_current_loop(h, comps, i, current, omega, recursive) ==
    LET continue(r) ==
            IF r.exc # "" THEN r
            ELSE Series_apply_current_loop(r.h, comps, i + 1, current, omega, recursive)
    IN  IF i > Len(comps) THEN HRet(h, CZero)
        ELSE continue(apply_current(h, comps[i],
                          COrient(current, h[comps[i]].orientation), omega, recursive))

\* A variant of Series.apply_current that tests the singular source only
\* after the base method has run.
Series_apply_current_late_check(h, id, current, omega, recursive) ==
    LET children(r) ==
            IF h[id].fixed # 0 THEN HRaise(r.h, "Exception")
            ELSE IF r.exc # "" \/ ~recursive THEN r
            ELSE Series_apply_current_loop(r.h, r.h[id].components, 1, current,
                                           omega, recursive)
    IN  children(TwoTerminalComponent_apply_current(h, id, current, omega))

Series_apply_current(h, id, current, omega, recursive) ==
    LET children(r) ==
            IF r.exc # "" \/ ~recursive THEN r
            ELSE Series_apply_current_loop(r.h, r.h[id].components, 1, current,
                                           omega, recursive)
    IN  IF h[id].fixed # 0 THEN HRaise(h, "Exception")
        ELSE children(TwoTerminalComponent_apply_current(h, id, current, omega))

\* for component in self.components:
\*     component.apply_current(self.current * component.orientation, omega)
\*     voltage -= component.voltage * component.orientation
\* val is the voltage left when the loop ends.
Series_apply_voltage_loop(h, id, i, voltage, omega) ==
    LET c == h[id].components[i]
        continue(r) ==
            IF r.exc # "" THEN r
            ELSE Series_apply_voltage_loop(r.h, id, i + 1,
                     CSub(voltage, COrient(r.h[c].voltage, r.h[c].orientation)), omega)
    IN  IF i > Len(h[id].components) THEN HRet(h, voltage)
        ELSE continue(apply_current(h, c, COrient(h[id].current, h[c].orientation),
                                    omega, TRUE))

Series_apply_voltage(h, id, voltage, omega, recursive) ==
    LET source(l) ==
            IF l.exc # "" \/ l.h[id].fixed = 0 THEN l
            ELSE apply_voltage(l.h, l.h[id].fixed,
                     COrient(l.val, l.h[l.h[id].fixed].orientation), omega, recursive)
        children(r) ==
            IF r.exc # "" \/ ~recursive THEN r
            ELSE source(Series_apply_voltage_loop(r.h, id, 1, voltage, omega))
    IN  children(TwoTerminalComponent_apply_voltage(h, id, voltage, omega))

\* for component in self.components:
\*     component.apply_voltage(self.voltage * component.orientation, omega, recursive)
\*     current -= component.current * component.orientation
\* val is the current left when the loop ends.
Parallel_apply_current_loop(h, id, i, current, omega, recursive) ==
    LET c == h[id].components[i]
        continue(r) ==
            IF r.exc # "" THEN r
            ELSE Parallel_apply_current_loop(r.h, id, i + 1,
                     CSub(current, COrient(r.h[c].current, r.h[c].orientation)),
                     omega, recursive)
    IN  IF i > Len(h[id].components) THEN HRet(h, current)
        ELSE continue(apply_voltage(h, c, COrient(h[id].voltage, h[c].orientation),
                                    omega, recursive))

\* The orientation applied to the residual current of the singular source
\* is that of the loop variable component, the last regular child; with no
\* regular child the name is unbound.
Parallel_apply_current(h, id, current, omega, recursive) ==
    LET comps == h[id].components
        source(l) ==
            IF l.exc # "" \/ l.h[id].fixed = 0 THEN l
            ELSE IF Len(comps) = 0 THEN HRaise(l.h, "UnboundLocalError")
            ELSE apply_current(l.h, l.h[id].fixed,
                     COrient(l.val, l.h[comps[Len(comps)]].orientation),
                     omega, recursive)
        children(r) ==
            IF r.exc # "" \/ ~recursive THEN r
            ELSE source(Parallel_apply_current_loop(r.h, id, 1, current, omega, recursive))
    IN  children(TwoTerminalComponent_apply_current(h, id, current, omega))

\* for component in self.components:
\*     component.apply_voltage(voltage * component.orientation, omega, recursive)
Parallel_apply_voltage_loop(h, comps, i, voltage, omega, recursive) ==
    LET continue(r) ==
            IF r.exc # "" THEN r
            ELSE Parallel_apply_voltage_loop(r.h, comps, i + 1, voltage, omega, recursive)
    IN  IF i > Len(comps) THEN HRet(h, CZero)
        ELSE continue(apply_voltage(h, comps[i],
                          COrient(voltage, h[comps[i]].orientation), omega, recursive))

Parallel_apply_voltage(h, id, voltage, omega, recursive) ==
    LET children(r) ==
            IF r.exc # "" \/ ~recursive THEN r
            ELSE Parallel_apply_voltage_loop(r.h, r.h[id].components, 1, voltage,
                                             omega, recursive)
    IN  IF h[id].fixed # 0 THEN HRaise(h, "Exception")
        ELSE children(TwoTerminalComponent_apply_voltage(h, id, voltage, omega))

\* Method dispatch on the component's class.
apply_current(h, id, current, omega, recursive) ==
    CASE h[id].kind = "SERIES" -> Series_apply_current(h, id, current, omega, recursive)
      [] h[id].kind = "PARALLEL" -> Parallel_apply_current(h, id, current, omega, recursive)
      [] OTHER -> TwoTerminalComponent_apply_current(h, id, current, omega)

apply_voltage(h, id, voltage, omega, recursive) ==
    CASE h[id].kind = "SERIES" -> Series_apply_voltage(h, id, voltage, omega, recursive)
      [] h[id].kind = "PARALLEL" -> Parallel_apply_voltage(h, id, voltage, omega, recursive)
      [] OTHER -> TwoTerminalComponent_apply_voltage(h, id, voltage, omega)

flip(h, id) == [h EXCEPT ![id].orientation = -1 * h[id].orientation]

----------------------------------------------------------------------------
(* Composition: add_component, in_series_with (&), in_parallel_with (|).   *)

\* Series() / Parallel(): the new object's identity is the next heap index.
alloc(h, o) == [h |-> Append(h, o), val |-> Len(h) + 1]

Series_add_component(h, self, component) ==
    IF h[component].kind = "IDEAL_CURRENT_SOURCE"
    THEN IF h[self].fixed = 0
         THEN HRet([h EXCEPT ![self].fixed = component], self)
         ELSE HRaise(h, "Exception")
    ELSE HRet([h EXCEPT ![self].components = Append(@, component)], self)

Parallel_add_component(h, self, component) ==
    IF h[component].kind = "IDEAL_VOLTAGE_SOURCE"
    THEN IF h[self].fixed = 0
         THEN HRet([h EXCEPT ![self].fixed = component], self)
         ELSE HRaise(h, "Exception")
    ELSE HRet([h EXCEPT ![self].components = Append(@, component)], self)

add_component(h, self, component) ==
    IF h[self].kind = "SERIES" THEN Series_add_component(h, self, component)
    ELSE Parallel_add_component(h, self, component)

\* for component in other.components: self.add_component(component)
RECURSIVE add_components_loop(_, _, _, _)
add_components_loop(h, self, comps, i) ==
    LET continue(r) ==
            IF r.exc # "" THEN r ELSE add_components_loop(r.h, self, comps, i + 1)
    IN  IF i > Len(comps) THEN HRet(h, self)
        ELSE continue(add_component(h, self, comps[i]))

\* Series.in_series_with / Parallel.in_parallel_with: self absorbs other's
\* regular children, then its singular source, when other is a composite of
\* the same class, and takes other as a child otherwise; returns self.
Composite_absorb(h, self, other) ==
    LET source(l) ==
            IF l.exc # "" \/ h[other].fixed = 0 THEN l
            ELSE add_component(l.h, self, h[other].fixed)
    IN  IF h[other].kind = h[self].kind
        THEN source(add_components_loop(h, self, h[other].components, 1))
        ELSE add_component(h, self, other)

Series_in_series_with(h, self, other) == Composite_absorb(h, self, other)
Parallel_in_parallel_with(h, self, other) == Composite_absorb(h, self, other)

\* Series().add_component(self).add_component(other), likewise Parallel().
\* When add_component raises, the composite just created is unreachable
\* and is left out of the heap.
Composite_of_two(h, composite, self, other) ==
    LET second(r2) == IF r2.exc # "" THEN HRaise(h, r2.exc) ELSE r2
        first(r1) ==
            IF r1.exc # "" THEN HRaise(h, r1.exc)
            ELSE second(add_component(r1.h, Len(h) + 1, other))
    IN  first(add_component(Append(h, composite), Len(h) + 1, self))

TwoTerminalComponent_in_series_with(h, self, other) ==
    IF h[other].kind = "SERIES" THEN Series_in_series_with(h, other, self)
    ELSE Composite_of_two(h, Series, self, other)

TwoTerminalComponent_in_parallel_with(h, self, other) ==
    IF h[other].kind = "PARALLEL" THEN Parallel_in_parallel_with(h, other, self)
    ELSE Composite_of_two(h, Parallel, self, other)

\* self & other
in_series_with(h, self, other) ==
    IF h[self].kind = "SERIES" THEN Series_in_series_with(h, self, other)
    ELSE TwoTerminalComponent_in_series_with(h, self, other)

\* self | other
in_parallel_with(h, self, other) ==
    IF h[self].kind = "PARALLEL" THEN Parallel_in_parallel_with(h, self, other)
    ELSE TwoTerminalComponent_in_parallel_with(h, self, other)

\* traverse(): the leaves of a component, singular source first.
RECURSIVE traverse(_, _)
RECURSIVE traverse_all(_, _, _)
traverse_all(h, comps, i) ==
    IF i > Len(comps) THEN <<>> ELSE traverse(h, comps[i]) \o traverse_all(h, comps, i + 1)
traverse(h, id) ==
    IF h[id].kind \in {"SERIES", "PARALLEL"}
    THEN (IF h[id].fixed # 0 THEN <<h[id].fixed>> ELSE <<>>)
         \o traverse_all(h, h[id].components, 1)
    ELSE <<id>>

----------------------------------------------------------------------------
(* The client of the component algebra: it starts from a pool of          *)
(* components and then makes up to MaxOps calls on the components it holds *)
(* (roots): ~x, a & b, a | b, characteristic, apply_current, apply_voltage.*)
(* A component that became part of a composite is no longer used on its    *)
(* own (each composite owns its children).                                 *)

MaxOps == 4

ObjectKinds == <<"IDEAL_VOLTAGE_SOURCE", "IDEAL_CURRENT_SOURCE", "RESISTOR",
                 "SERIES", "PARALLEL">>

\* The objects the client starts from: any three of an ideal voltage
\* source, an ideal current source, a resistor, Series() and Parallel()
\* (listed in the order of ObjectKinds), or the four leaves of two series
\* branches that each hold a current source.  Object i has value i.
ObjectPools ==
    {<<ObjectKinds[t[1]], ObjectKinds[t[2]], ObjectKinds[t[3]]>> :
        t \in {u \in (1 .. 5) \X (1 .. 5) \X (1 .. 5) : u[1] <= u[2] /\ u[2] <= u[3]}}
    \cup {<<"IDEAL_CURRENT_SOURCE", "RESISTOR", "IDEAL_CURRENT_SOURCE", "RESISTOR">>}

\* The frequencies and the currents and voltages the client applies.
Omegas == {0}
AppliedValues == {CInt(3)}

NoCall == [op |-> "", a |-> 0, b |-> 0, exc |-> "", res |-> 0,
           char |-> short_circuit, arg |-> CZero, omega |-> 0]

Call(op, a, b, exc, res, char, arg, omega) ==
    [op |-> op, a |-> a, b |-> b, exc |-> exc, res |-> res,
     char |-> char, arg |-> arg, omega |-> omega]

SolverIdle ==
    /\ branches = <<>>
    /\ node_potentials = <<>>
    /\ node_currents = <<>>
    /\ branch_currents = <<>>
    /\ reference_node = 0
    /\ params = <<>>
    /\ history = <<>>
    /\ sv = [pc |-> "idle"]

solver_vars == <<branches, node_potentials, node_currents, branch_currents,
                 reference_node, params, history, sv>>

\* The composites the client holds: the components it evaluates.
Composites == {x \in roots : heap[x].kind \in {"SERIES", "PARALLEL"}}

Init ==
    /\ iv = [op |-> "", x |-> short_circuit, y |-> short_circuit, res |-> Ret(short_circuit)]
    /\ \E pool \in ObjectPools :
           /\ heap = [i \in 1 .. Len(pool) |->
                         IF pool[i] \in {"SERIES", "PARALLEL"}
                         THEN NewObj(pool[i], CZero) ELSE NewObj(pool[i], CInt(i))]
           /\ roots = 1 .. Len(pool)
    /\ last = NoCall
    /\ nops = 0
    /\ SolverIdle

ClientFlip(x) ==
    /\ nops < MaxOps
    /\ heap' = flip(heap, x)
    /\ last' = Call("flip", x, 0, "", x, short_circuit, CZero, 0)
    /\ nops' = nops + 1
    /\ UNCHANGED <<iv, roots, solver_vars>>

ClientAnd(a, b) ==
    LET return(r) ==
            /\ heap' = r.h
            /\ roots' = IF r.exc = "" THEN (roots \ {a, b}) \cup {r.val} ELSE roots
            /\ last' = Call("and", a, b, r.exc, IF r.exc = "" THEN r.val ELSE 0,
                            short_circuit, CZero, 0)
    IN  /\ nops < MaxOps
        /\ a # b
        /\ return(in_series_with(heap, a, b))
        /\ nops' = nops + 1
        /\ UNCHANGED <<iv, solver_vars>>

ClientOr(a, b) ==
    LET return(r) ==
            /\ heap' = r.h
            /\ roots' = IF r.exc = "" THEN (roots \ {a, b}) \cup {r.val} ELSE roots
            /\ last' = Call("or", a, b, r.exc, IF r.exc = "" THEN r.val ELSE 0,
                            short_circuit, CZero, 0)
    IN  /\ nops < MaxOps
        /\ a # b
        /\ return(in_parallel_with(heap, a, b))
        /\ nops' = nops + 1
        /\ UNCHANGED <<iv, solver_vars>>

ClientCharacteristic(x, omega) ==
    LET return(r) ==
            /\ heap' = r.h
            /\ last' = Call("characteristic", x, 0, r.exc, 0,
                            IF r.exc = "" THEN r.val ELSE short_circuit, CZero, omega)
    IN  /\ nops < MaxOps
        /\ return(current_voltage_characteristic(heap, x, omega, TRUE))
        /\ nops' = nops + 1
        /\ UNCHANGED <<iv, roots, solver_vars>>

ClientApplyCurrent(x, current, omega) ==
    LET return(r) ==
            /\ heap' = r.h
            /\ last' = Call("apply_current", x, 0, r.exc, 0, short_circuit, current, omega)
    IN  /\ nops < MaxOps
        /\ return(apply_current(heap, x, current, omega, TRUE))
        /\ nops' = nops + 1
        /\ UNCHANGED <<iv, roots, solver_vars>>

ClientApplyVoltage(x, voltage, omega) ==
    LET return(r) ==
            /\ heap' = r.h
            /\ last' = Call("apply_voltage", x, 0, r.exc, 0, short_circuit, voltage, omega)
    IN  /\ nops < MaxOps
        /\ return(apply_voltage(heap, x, voltage, omega, TRUE))
        /\ nops' = nops + 1
        /\ UNCHANGED <<iv, roots, solver_vars>>

Next ==
    \/ \E x \in roots : ClientFlip(x)
    \/ \E a, b \in roots : ClientAnd(a, b)
    \/ \E a, b \in roots : ClientOr(a, b)
    \/ \E x \in Composites, omega \in Omegas : ClientCharacteristic(x, omega)
    \/ \E x \in Composites, current \in AppliedValues, omega \in Omegas :
           ClientApplyCurrent(x, current, omega)
    \/ \E x \in Composites, voltage \in AppliedValues, omega \in Omegas :
           ClientApplyVoltage(x, voltage, omega)

Spec == Init /\ [][Next]_vars

----------------------------------------------------------------------------
(* The characteristic algebra on its own: two characteristics drawn from a *)
(* bounded set, and one of ~x, x & y, x | y applied to them.               *)

IVCoefficients == {CZero, COne, CInt(-2), <<0, 1, 1>>, <<0, -1, 1>>, <<1, -1, 2>>}
IVChars == {IVChar(a, b, c) : a \in BOOLEAN, b \in IVCoefficients, c \in IVCoefficients}

ClientIdle ==
    /\ heap = <<>>
    /\ roots = {}
    /\ last = NoCall
    /\ nops = 0

InitIV ==
    /\ \E x, y \in IVChars :
           iv = [op |-> "", x |-> x, y |-> y, res |-> Ret(short_circuit)]
    /\ ClientIdle
    /\ SolverIdle

IVInvert ==
    /\ iv.op = ""
    /\ iv' = [iv EXCEPT !.op = "invert", !.res = Ret(IVChar_invert(iv.x))]
    /\ UNCHANGED <<heap, roots, last, nops, solver_vars>>

IVAnd ==
    /\ iv.op = ""
    /\ iv' = [iv EXCEPT !.op = "and", !.res = IVChar_and(iv.x, iv.y)]
    /\ UNCHANGED <<heap, roots, last, nops, solver_vars>>

IVOr ==
    /\ iv.op = ""
    /\ iv' = [iv EXCEPT !.op = "or", !.res = IVChar_or(iv.x, iv.y)]
    /\ UNCHANGED <<heap, roots, last, nops, solver_vars>>

NextIV == IVInvert \/ IVAnd \/ IVOr

SpecIV == InitIV /\ [][NextIV]_vars

----------------------------------------------------------------------------
(* Properties of the component algebra (checked under Spec).               *)

\* characteristic(omega, with_orientation = true) of component x in heap h
OrientedChar(h, x, omega) == current_voltage_characteristic(h, x, omega, TRUE)

RECURSIVE SumOriented(_, _, _, _)
\* sum over the regular children of field (current or voltage) * orientation
SumOriented(h, comps, i, field) ==
    IF i > Len(comps) THEN CZero
    ELSE CAdd(COrient(IF field = "current" THEN h[comps[i]].current
                      ELSE h[comps[i]].voltage, h[comps[i]].orientation),
              SumOriented(h, comps, i + 1, field))

\* C5: the composite returned by a & b (a | b) has the oriented
\* characteristic char(a) & char(b) (char(a) | char(b)) of the operands'
\* oriented characteristics before the call, whatever the operands are.
C5_CompositeCharacteristic ==
    [][(last'.op \in {"and", "or"} /\ last'.exc = "") =>
         \A omega \in Omegas :
             LET ca == OrientedChar(heap, last'.a, omega)
                 cb == OrientedChar(heap, last'.b, omega)
                 expected == IF last'.op = "and" THEN IVChar_and(ca.val, cb.val)
                             ELSE IVChar_or(ca.val, cb.val)
                 got == OrientedChar(heap', last'.res, omega)
             IN  (ca.exc = "" /\ cb.exc = "" /\ expected.exc = "")
                     => (got.exc = "" /\ got.val = expected.val)]_vars

\* C6: a failed a & b or a | b leaves every object as it was before the call.
C6_FailedCompositionChangesNothing ==
    [][(last'.op \in {"and", "or"} /\ last'.exc # "") => heap' = heap]_vars

\* C7: after Parallel.apply_current(I, omega, recursive = true) every
\* regular child c holds the parallel's voltage times c.orientation, and
\* with a singular voltage source s the currents add up to I:
\* sum of c.current * c.orientation, plus s.current * s.orientation.
C7_ParallelApplyCurrent ==
    (last.op = "apply_current" /\ last.exc = "" /\ heap[last.a].kind = "PARALLEL") =>
        LET p == heap[last.a] IN
        /\ \A i \in 1 .. Len(p.components) :
               /\ heap[p.components[i]].has_state
               /\ heap[p.components[i]].voltage
                      = COrient(p.voltage, heap[p.components[i]].orientation)
        /\ p.fixed # 0 =>
               CAdd(SumOriented(heap, p.components, 1, "current"),
                    COrient(heap[p.fixed].current, heap[p.fixed].orientation)) = last.arg

\* C8: after a completed Series.apply_voltage(V, omega, recursive = true)
\* the series' current is the one its characteristic gives at V, every
\* regular child c carries it times c.orientation, and the voltages add up
\* to V: sum of c.voltage * c.orientation, plus s.voltage * s.orientation
\* for the singular current source s when there is one.
C8_SeriesApplyVoltage ==
    (last.op = "apply_voltage" /\ last.exc = "" /\ heap[last.a].kind = "SERIES") =>
        LET s == heap[last.a] IN
        /\ s.current = current_at_voltage(s.char, last.arg).val
        /\ \A i \in 1 .. Len(s.components) :
               /\ heap[s.components[i]].has_state
               /\ heap[s.components[i]].current
                      = COrient(s.current, heap[s.components[i]].orientation)
        /\ CAdd(SumOriented(heap, s.components, 1, "voltage"),
                IF s.fixed # 0
                THEN COrient(heap[s.fixed].voltage, heap[s.fixed].orientation)
                ELSE CZero) = last.arg

\* C9: apply_current on a Series that holds a singular current source, and
\* apply_voltage on a Parallel that holds a singular voltage source, raise
\* and leave every object as it was before the call.
C9_WrongPolarityRaisesUnchanged ==
    [][((last'.op = "apply_current" /\ heap[last'.a].kind = "SERIES"
            /\ heap[last'.a].fixed # 0)
        \/ (last'.op = "apply_voltage" /\ heap[last'.a].kind = "PARALLEL"
            /\ heap[last'.a].fixed # 0))
       => (last'.exc = "Exception" /\ heap' = heap)]_vars

\* A current was applied to a series that holds a current source and some
\* regular child, after the series had recorded a state.
C9_Witness ==
    /\ last.op = "apply_current"
    /\ last.exc = "Exception"
    /\ heap[last.a].kind = "SERIES"
    /\ heap[last.a].fixed # 0
    /\ Len(heap[last.a].components) > 0
    /\ heap[last.a].has_state

----------------------------------------------------------------------------
(* Properties of the characteristic algebra (checked under SpecIV).        *)

\* C10: x & y raises when both are fixed-current, is the fixed-current
\* operand when exactly one is, and (true, b_x + b_y, c_x + c_y) otherwise.
C10_SeriesComposition ==
    iv.op = "and" =>
        /\ (~iv.x.a /\ ~iv.y.a) => iv.res.exc = "Exception"
        /\ (~iv.x.a /\ iv.y.a) => iv.res = Ret(iv.x)
        /\ (iv.x.a /\ ~iv.y.a) => iv.res = Ret(iv.y)
        /\ (iv.x.a /\ iv.y.a) =>
               iv.res = Ret([a |-> TRUE, b |-> CAdd(iv.x.b, iv.y.b),
                             c |-> CAdd(iv.x.c, iv.y.c)])

\* x & y was taken with only y fixed-current, and with an impedance-form x
\* that differs from y in both coefficients.
C10_Witness ==
    /\ iv.op = "and"
    /\ iv.x.a /\ ~iv.y.a
    /\ iv.x.b # iv.y.b /\ iv.x.c # iv.y.c
    /\ iv.res.exc = ""

\* C11: x | y raises when both are fixed-voltage and returns a result for
\* every other pair: (false, 1, c_x + c_y) when both are fixed-current,
\* (true, b_y, c_y + b_y * c_x) when only x is (and symmetrically), and
\* (true, b_x*b_y/(b_x+b_y), (c_x*b_y + c_y*b_x)/(b_x+b_y)) otherwise.
C11_ParallelComposition ==
    iv.op = "or" =>
        /\ (has_fixed_voltage(iv.x) /\ has_fixed_voltage(iv.y))
               => iv.res.exc = "Exception"
        /\ ~(has_fixed_voltage(iv.x) /\ has_fixed_voltage(iv.y))
               => iv.res.exc = ""
        /\ (~iv.x.a /\ ~iv.y.a) =>
               iv.res = Ret([a |-> FALSE, b |-> COne, c |-> CAdd(iv.x.c, iv.y.c)])
        /\ (~iv.x.a /\ iv.y.a /\ ~has_fixed_voltage(iv.y)) =>
               iv.res = Ret([a |-> TRUE, b |-> iv.y.b,
                             c |-> CAdd(iv.y.c, CMul(iv.y.b, iv.x.c))])
        /\ (iv.x.a /\ ~iv.y.a /\ ~has_fixed_voltage(iv.x)) =>
               iv.res = Ret([a |-> TRUE, b |-> iv.x.b,
                             c |-> CAdd(iv.x.c, CMul(iv.x.b, iv.y.c))])
        /\ (iv.x.a /\ iv.y.a /\ CAdd(iv.x.b, iv.y.b) # CZero) =>
               iv.res = Ret([a |-> TRUE,
                             b |-> CDiv(CMul(iv.x.b, iv.y.b), CAdd(iv.x.b, iv.y.b)),
                             c |-> CDiv(CAdd(CMul(iv.x.c, iv.y.b), CMul(iv.y.c, iv.x.b)),
                                        CAdd(iv.x.b, iv.y.b))])

----------------------------------------------------------------------------
(* Python dicts, kept as sequences of [key, val] entries in insertion      *)
(* order, and list.remove.                                                 *)

dict_index(d, key) ==
    IF \E i \in DOMAIN d : d[i].key = key
    THEN CHOOSE i \in DOMAIN d : d[i].key = key ELSE 0

dict_has(d, key) == dict_index(d, key) # 0

dict_get(d, key) == d[dict_index(d, key)].val

dict_put(d, key, val) ==
    IF dict_has(d, key) THEN [d EXCEPT ![dict_index(d, key)].val = val]
    ELSE Append(d, [key |-> key, val |-> val])

\* d.setdefault(key, []).append(x)
dict_append(d, key, x) ==
    IF dict_has(d, key) THEN [d EXCEPT ![dict_index(d, key)].val = Append(@, x)]
    ELSE Append(d, [key |-> key, val |-> <<x>>])

list_index(s, x) ==
    IF \E i \in DOMAIN s : s[i] = x
    THEN CHOOSE i \in DOMAIN s : s[i] = x /\ \A j \in 1 .. i - 1 : s[j] # x
    ELSE 0

list_remove(s, x) ==
    SubSeq(s, 1, list_index(s, x) - 1) \o SubSeq(s, list_index(s, x) + 1, Len(s))

----------------------------------------------------------------------------
(* Branch and the circuit reducer.  A branch is the record of its source,  *)
(* its sink and its body (the attribute components); every branch has a    *)
(* body of its own, so two branch objects are the same object exactly when *)
(* their records are equal.                                                *)

\* functools.reduce(lambda acc, c: acc & c, comps, acc)  (acc | c in parallel)
RECURSIVE reduce_loop(_, _, _, _, _)
reduce_loop(h, acc, comps, i, series) ==
    LET continue(r) ==
            IF r.exc # "" THEN r ELSE reduce_loop(r.h, r.val, comps, i + 1, series)
    IN  IF i > Len(comps) THEN HRet(h, acc)
        ELSE continue(IF series THEN in_series_with(h, acc, comps[i])
                      ELSE in_parallel_with(h, acc, comps[i]))

\* A variant of Branch.__init__ that swaps the pair without flipping the body.
Branch_unflipped(h, source, sink, components) ==
    LET order(body) ==
            IF body.exc # "" THEN body
            ELSE IF source > sink
            THEN HRet(body.h,
                      [source |-> sink, sink |-> source, components |-> body.val])
            ELSE HRet(body.h,
                      [source |-> source, sink |-> sink, components |-> body.val])
    IN  order(IF Len(components) = 1 THEN HRet(h, components[1])
              ELSE reduce_loop(alloc(h, Series).h, alloc(h, Series).val,
                               components, 1, TRUE))

\* Branch.__init__: val is the new branch.
Branch(h, source, sink, components) ==
    LET order(body) ==
            IF body.exc # "" THEN body
            ELSE IF source > sink
            THEN HRet(flip(body.h, body.val),
                      [source |-> sink, sink |-> source, components |-> body.val])
            ELSE HRet(body.h,
                      [source |-> source, sink |-> sink, components |-> body.val])
    IN  order(IF Len(components) = 1 THEN HRet(h, components[1])
              ELSE reduce_loop(alloc(h, Series).h, alloc(h, Series).val,
                               components, 1, TRUE))

\* The mapping from nodes to branches that _reduce_series starts from.
RECURSIVE node_to_branches(_, _, _)
node_to_branches(d, initial_branches, i) ==
    IF i > Len(initial_branches) THEN d
    ELSE LET branch == initial_branches[i]
             d1 == dict_append(d, branch.source, branch)
         IN  node_to_branches(IF branch.sink = branch.source THEN d1
                              ELSE dict_append(d1, branch.sink, branch),
                              initial_branches, i + 1)

other_terminal(branch, node) ==
    IF branch.source = node THEN branch.sink ELSE branch.source

NoMerge == [node |-> 0, first |-> 0, second |-> 0, new |-> 0]

\* One iteration of the loop over node_to_branches.items() in
\* _reduce_series, for the i-th node.  val holds the mapping after the
\* iteration and, when the node was merged away, the two branches
\* sorted_branches and new_branch.
reduce_series_node(h, d, i) ==
    LET node == d[i].key
        bs == d[i].val
        sorted_branches ==
            IF other_terminal(bs[2], node) < other_terminal(bs[1], node)
            THEN <<bs[2], bs[1]>> ELSE bs
        b0 == sorted_branches[1]
        b1 == sorted_branches[2]
        source == other_terminal(b0, node)
        sink == other_terminal(b1, node)
        replace(new_branch) ==
            LET d1 == [d EXCEPT ![dict_index(d, source)].val = list_remove(@, b0)]
                d2 == [d1 EXCEPT ![dict_index(d1, sink)].val = list_remove(@, b1)]
                d3 == dict_append(d2, source, new_branch.val)
                d4 == IF source # sink THEN dict_append(d3, sink, new_branch.val) ELSE d3
                d5 == [d4 EXCEPT ![i].val = <<>>]
            IN  IF list_index(dict_get(d, source), b0) = 0
                   \/ list_index(dict_get(d1, sink), b1) = 0
                THEN HRaise(new_branch.h, "ValueError")
                ELSE HRet(new_branch.h,
                          [node_to_branches |-> d5,
                           merged |-> [node |-> node, first |-> b0, second |-> b1,
                                       new |-> new_branch.val]])
        second(r1) ==
            IF r1.exc # "" THEN HRaise(r1.h, r1.exc)
            ELSE replace(Branch(r1.h, source, sink, <<r1.val>>))
        first(r0) ==
            IF r0.exc # "" THEN HRaise(r0.h, r0.exc)
            ELSE second(in_series_with(
                     IF node # b1.source THEN flip(r0.h, b1.components) ELSE r0.h,
                     r0.val, b1.components))
    IN  IF Len(bs) # 2 THEN HRet(h, [node_to_branches |-> d, merged |-> NoMerge])
        ELSE first(in_series_with(
                 IF node = b0.source THEN flip(alloc(h, Series).h, b0.components)
                 ELSE alloc(h, Series).h,
                 alloc(h, Series).val, b0.components))

\* The branches _reduce_series returns: those listed under their source.
RECURSIVE resulting_branches(_, _)
resulting_branches(d, i) ==
    IF i > Len(d) THEN <<>>
    ELSE SelectSeq(d[i].val, LAMBDA branch : branch.source = d[i].key)
         \o resulting_branches(d, i + 1)

RECURSIVE terminals_to_branches(_, _, _)
terminals_to_branches(d, initial_branches, i) ==
    IF i > Len(initial_branches) THEN d
    ELSE terminals_to_branches(
             dict_append(d, <<initial_branches[i].source, initial_branches[i].sink>>,
                         initial_branches[i]),
             initial_branches, i + 1)

\* The list comprehension of _reduce_parallel over terminals_to_branches.
RECURSIVE reduce_parallel_groups(_, _, _, _)
reduce_parallel_groups(h, d, i, acc) ==
    LET bodies == [k \in 1 .. Len(d[i].val) |-> d[i].val[k].components]
        continue(b) == reduce_parallel_groups(b.h, d, i + 1, Append(acc, b.val))
        branch(r) ==
            IF r.exc # "" THEN r
            ELSE continue(Branch(r.h, d[i].key[1], d[i].key[2], <<r.val>>))
    IN  IF i > Len(d) THEN HRet(h, acc)
        ELSE IF Len(d[i].val) > 1
        THEN branch(reduce_loop(alloc(h, Parallel).h, alloc(h, Parallel).val,
                                bodies, 1, FALSE))
        ELSE reduce_parallel_groups(h, d, i + 1, Append(acc, d[i].val[1]))

_reduce_parallel(h, initial_branches) ==
    reduce_parallel_groups(h, terminals_to_branches(<<>>, initial_branches, 1), 1, <<>>)

----------------------------------------------------------------------------
(* CircuitSolver.  node_potentials, node_currents and branch_currents are  *)
(* dicts of autodiff values; branch_currents is keyed by the branch's      *)
(* position in self.branches, counted from 1 here.  A value that is not a  *)
(* leaf is the sum of the potential of another node (input, or the value   *)
(* held when that node's entry has since been replaced) and a constant.    *)

Value(data) ==
    [data |-> data, is_leaf |-> TRUE, input |-> 0, held |-> CZero, addend |-> CZero]

\* node_potentials[key] + other, for a complex other (Value.__add__)
Value_add(d, key, other) ==
    [data |-> CAdd(dict_get(d, key).data, other), is_leaf |-> FALSE,
     input |-> key, held |-> CZero, addend |-> other]

\* self.node_potentials[key] = v.  The value object the entry held before
\* stays the input of the values that were built from it.
set_potential(d, key, v) ==
    IF ~dict_has(d, key) THEN Append(d, [key |-> key, val |-> v])
    ELSE LET old == dict_get(d, key).data
             detach(x) == IF ~x.is_leaf /\ x.input = key
                          THEN [x EXCEPT !.input = 0, !.held = old] ELSE x
         IN  [i \in DOMAIN d |->
                 [key |-> d[i].key,
                  val |-> IF d[i].key = key THEN detach(v) ELSE detach(d[i].val)]]

\* The first loop of _init_nodes without the raise of lines 124-125.
\* st holds exc, reference_node, node_potentials and branch_currents.
RECURSIVE init_voltage_sources_unchecked(_, _, _, _)
init_voltage_sources_unchecked(h, brs, i, st) ==
    LET branch == brs[i]
        body == h[branch.components]
        np == st.node_potentials
        voltage_delta == COrient(body.value, body.orientation)
        from_zero(zeroed) ==
            set_potential(zeroed, branch.sink,
                Value_add(zeroed, branch.source, CNeg(voltage_delta)))
        continue(st1) ==
            IF st1.exc # "" THEN st1
            ELSE init_voltage_sources_unchecked(h, brs, i + 1,
                     [st1 EXCEPT !.branch_currents = dict_put(@, i, Value(CZero))])
    IN  IF i > Len(brs) \/ st.exc # "" THEN st
        ELSE IF body.kind # "IDEAL_VOLTAGE_SOURCE"
        THEN init_voltage_sources_unchecked(h, brs, i + 1, st)
        ELSE continue(
            IF st.reference_node = 0
            THEN [st EXCEPT !.reference_node = branch.source,
                            !.node_potentials =
                                from_zero(set_potential(np, branch.source, Value(CZero)))]
            ELSE IF ~dict_has(np, branch.source)
            THEN IF ~dict_has(np, branch.sink)
                 THEN [st EXCEPT !.node_potentials =
                           from_zero(set_potential(np, branch.source, Value(CZero)))]
                 ELSE [st EXCEPT !.node_potentials =
                           set_potential(np, branch.source,
                               Value_add(np, branch.sink, voltage_delta))]
            ELSE IF ~dict_has(np, branch.sink)
            THEN [st EXCEPT !.node_potentials =
                      set_potential(np, branch.sink,
                          Value_add(np, branch.source, CNeg(voltage_delta)))]
            ELSE IF CSub(dict_get(np, branch.source).data,
                         dict_get(np, branch.sink).data) # voltage_delta
            THEN st
            ELSE st)

\* The first loop of _init_nodes: the ideal-voltage-source branches.
\* st holds exc, reference_node, node_potentials and branch_currents.
RECURSIVE init_voltage_sources(_, _, _, _)
init_voltage_sources(h, brs, i, st) ==
    LET branch == brs[i]
        body == h[branch.components]
        np == st.node_potentials
        voltage_delta == COrient(body.value, body.orientation)
        from_zero(zeroed) ==
            set_potential(zeroed, branch.sink,
                Value_add(zeroed, branch.source, CNeg(voltage_delta)))
        continue(st1) ==
            IF st1.exc # "" THEN st1
            ELSE init_voltage_sources(h, brs, i + 1,
                     [st1 EXCEPT !.branch_currents = dict_put(@, i, Value(CZero))])
    IN  IF i > Len(brs) \/ st.exc # "" THEN st
        ELSE IF body.kind # "IDEAL_VOLTAGE_SOURCE"
        THEN init_voltage_sources(h, brs, i + 1, st)
        ELSE continue(
            IF st.reference_node = 0
            THEN [st EXCEPT !.reference_node = branch.source,
                            !.node_potentials =
                                from_zero(set_potential(np, branch.source, Value(CZero)))]
            ELSE IF ~dict_has(np, branch.source)
            THEN IF ~dict_has(np, branch.sink)
                 THEN [st EXCEPT !.node_potentials =
                           from_zero(set_potential(np, branch.source, Value(CZero)))]
                 ELSE [st EXCEPT !.node_potentials =
                           set_potential(np, branch.source,
                               Value_add(np, branch.sink, voltage_delta))]
            ELSE IF ~dict_has(np, branch.sink)
            THEN [st EXCEPT !.node_potentials =
                      set_potential(np, branch.sink,
                          Value_add(np, branch.source, CNeg(voltage_delta)))]
            ELSE IF CSub(dict_get(np, branch.source).data,
                         dict_get(np, branch.sink).data) # voltage_delta
            THEN [st EXCEPT !.exc = "RuntimeError"]
            ELSE st)

\* The second loop of _init_nodes: the nodes that have no potential yet.
RECURSIVE init_remaining_nodes(_, _, _)
init_remaining_nodes(brs, i, st) ==
    LET branch == brs[i]
        ensure(s, node) ==
            IF ~dict_has(s.node_potentials, node)
            THEN [s EXCEPT !.node_potentials = set_potential(@, node, Value(CZero))]
            ELSE s
    IN  IF i > Len(brs) THEN st
        ELSE init_remaining_nodes(brs, i + 1,
                 ensure(ensure(IF st.reference_node = 0
                               THEN [st EXCEPT !.reference_node = branch.source,
                                               !.node_potentials =
                                                   set_potential(@, branch.source,
                                                                 Value(CZero))]
                               ELSE st,
                               branch.source),
                        branch.sink))

\* _init_nodes, starting from the dicts np and bc.
_init_nodes(h, brs, np, bc) ==
    LET remaining(st) == IF st.exc # "" THEN st ELSE init_remaining_nodes(brs, 1, st)
    IN  remaining(init_voltage_sources(h, brs, 1,
                      [exc |-> "", reference_node |-> 0,
                       node_potentials |-> np, branch_currents |-> bc]))

\* _init_components_dict: the leaves of the branches, in order; a
\* component's label is its identity.
RECURSIVE _init_components_dict(_, _, _)
_init_components_dict(h, brs, i) ==
    IF i > Len(brs) THEN <<>>
    ELSE traverse(h, brs[i].components) \o _init_components_dict(h, brs, i + 1)

\* _init_optimizer: the learnable parameters, each named by the dict and
\* the key of the value object.
_init_optimizer(np, bc, ref) ==
    LET nodes == SelectSeq(np, LAMBDA e : e.key # ref /\ e.val.is_leaf)
    IN  [k \in 1 .. Len(nodes) |-> [dict |-> "node_potentials", key |-> nodes[k].key]]
        \o [k \in 1 .. Len(bc) |-> [dict |-> "branch_currents", key |-> bc[k].key]]

RECURSIVE update_dependent_loop(_, _)
update_dependent_loop(np, i) ==
    LET node == np[i].val
        base == IF node.input # 0 THEN dict_get(np, node.input).data ELSE node.held
    IN  IF i > Len(np) THEN np
        ELSE update_dependent_loop(
                 IF node.is_leaf THEN np
                 ELSE [np EXCEPT ![i].val.data = CAdd(base, node.addend)], i + 1)

_update_dependent_nodes(np) == update_dependent_loop(np, 1)

\* The loop of _loss over the branches; st holds exc, h and node_currents.
\* The apply_current of a voltage-source branch is called without omega,
\* which is then 0.
RECURSIVE loss_loop(_, _, _, _, _, _)
loss_loop(brs, np, bc, omega, j, st) ==
    LET branch == brs[j]
        body == st.h[branch.components]
        voltage_diff == CSub(dict_get(np, branch.source).data,
                             dict_get(np, branch.sink).data)
        add(nc, node, c) == dict_put(nc, node, CAdd(dict_get(nc, node), c))
        continue(r, c) ==
            IF r.exc # "" THEN [st EXCEPT !.exc = r.exc, !.h = r.h]
            ELSE loss_loop(brs, np, bc, omega, j + 1,
                     [st EXCEPT !.h = r.h,
                                !.node_currents =
                                    add(add(@, branch.source, c), branch.sink, CNeg(c))])
        account(r) ==
            continue(r, COrient(r.h[branch.components].current,
                                r.h[branch.components].orientation))
    IN  IF j > Len(brs) \/ st.exc # "" THEN st
        ELSE account(IF body.kind = "IDEAL_VOLTAGE_SOURCE"
                     THEN apply_current(st.h, branch.components,
                              COrient(dict_get(bc, j).data, body.orientation), 0, FALSE)
                     ELSE apply_voltage(st.h, branch.components,
                              COrient(voltage_diff, body.orientation), omega, FALSE))

RECURSIVE sum_abs(_, _)
sum_abs(nc, i) ==
    IF i > Len(nc) THEN CZero ELSE CAdd(CAbs2(nc[i].val), sum_abs(nc, i + 1))

\* for node_id in self.node_potentials: self.node_currents[node_id] = 0.
RECURSIVE zero_currents(_, _, _)
zero_currents(nc, np, i) ==
    IF i > Len(np) THEN nc ELSE zero_currents(dict_put(nc, np[i].key, CZero), np, i + 1)

\* _loss: val is the loss, node_currents the dict it leaves behind.
_loss(h, brs, np, nc, bc, omega) ==
    LET mean(st) ==
            IF st.exc # "" THEN st @@ [val |-> CZero]
            ELSE IF Len(st.node_currents) = 0
            THEN [st EXCEPT !.exc = "ZeroDivisionError"] @@ [val |-> CZero]
            ELSE st @@ [val |-> CDiv(sum_abs(st.node_currents, 1),
                                     CInt(Len(st.node_currents)))]
    IN  mean(loss_loop(brs, np, bc, omega, 1,
                 [exc |-> "", h |-> h, node_currents |-> zero_currents(nc, np, 1)]))

\* The first loop of _apply_node_voltages.
RECURSIVE apply_voltages_loop(_, _, _, _, _)
apply_voltages_loop(h, brs, np, omega, i) ==
    LET branch == brs[i]
        voltage_diff == CSub(dict_get(np, branch.source).data,
                             dict_get(np, branch.sink).data)
        continue(r) ==
            IF r.exc # "" THEN r ELSE apply_voltages_loop(r.h, brs, np, omega, i + 1)
    IN  IF i > Len(brs) THEN HRet(h, CZero)
        ELSE IF h[branch.components].kind = "IDEAL_VOLTAGE_SOURCE"
        THEN apply_voltages_loop(h, brs, np, omega, i + 1)
        ELSE continue(apply_voltage(h, branch.components,
                          COrient(voltage_diff, h[branch.components].orientation),
                          omega, TRUE))

\* The second loop of _apply_node_voltages.  branch is the variable of the
\* first loop, which ended on the last branch of the list.
RECURSIVE apply_currents_loop(_, _, _, _, _)
apply_currents_loop(h, brs, bc, omega, k) ==
    LET branch == brs[Len(brs)]
        continue(r) ==
            IF r.exc # "" THEN r ELSE apply_currents_loop(r.h, brs, bc, omega, k + 1)
    IN  IF k > Len(bc) THEN HRet(h, CZero)
        ELSE continue(apply_current(h, brs[bc[k].key].components,
                          COrient(bc[k].val.data, h[branch.components].orientation),
                          omega, TRUE))

_apply_node_voltages(h, brs, np, bc, omega) ==
    LET currents(r) ==
            IF r.exc # "" THEN r ELSE apply_currents_loop(r.h, brs, bc, omega, 1)
    IN  currents(apply_voltages_loop(h, brs, np, omega, 1))

\* solve with a single branch: 0 A through a voltage source or a Parallel,
\* 0 V across any other body.
solve_single_branch(h, brs, omega) ==
    IF h[brs[1].components].kind \in {"IDEAL_VOLTAGE_SOURCE", "PARALLEL"}
    THEN apply_current(h, brs[1].components, CZero, omega, TRUE)
    ELSE apply_voltage(h, brs[1].components, CZero, omega, TRUE)

----------------------------------------------------------------------------
(* A solver run.  The client creates the leaf components of a circuit,     *)
(* builds its branches, constructs a CircuitSolver from them and calls     *)
(* solve(omega).  The reducer's series pass is taken node by node, the     *)
(* optimisation loop epoch by epoch.  With reduce = FALSE the constructor  *)
(* keeps the branch list as given: the solver the reducer is an            *)
(* optimisation over.                                                      *)
(*                                                                         *)
(* Optimizer.step is floating-point arithmetic (Adam); a step assigns to   *)
(* each parameter any value of ParamValues.  The two stopping tests of the *)
(* loop, math.isclose against 0 and against the previous loss, are exact   *)
(* equality.                                                               *)

\* _round_complex(value, ndigits = 5): round() of the real and of the
\* imaginary part, which rounds half to even.
ndigits == 5

round(n, d) ==
    LET q == (n * 10 ^ ndigits) \div d
        r == (n * 10 ^ ndigits) % d
    IN  IF 2 * r > d \/ (2 * r = d /\ q % 2 = 1) THEN q + 1 ELSE q

_round_complex(value) ==
    CNorm(round(value[1], value[3]), round(value[2], value[3]), 10 ^ ndigits)

\* state_at(label); label i is the label of leaf i, components lists the
\* labels registered in self.components, val.none stands for None.
\* Reading _state of a component that was never given a state finds no
\* such attribute.
state_at(h, components, label) ==
    IF list_index(components, label) = 0
    THEN [exc |-> "", val |-> [none |-> TRUE, current |-> CZero, voltage |-> CZero]]
    ELSE IF ~h[label].has_state
    THEN [exc |-> "AttributeError",
          val |-> [none |-> TRUE, current |-> CZero, voltage |-> CZero]]
    ELSE [exc |-> "", val |-> [none |-> FALSE,
                               current |-> _round_complex(h[label].current),
                               voltage |-> _round_complex(h[label].voltage)]]

\* Stands for MAX_EPOCHS = 10 000, the bound of the optimisation loop.
MaxEpochs == 2

ParamValues == {CInt(-6), CInt(-3), CZero}

Leaf(kind, value, orientation) ==
    [kind |-> kind, value |-> CInt(value), orientation |-> orientation]

BranchArgs(source, sink, components) ==
    [source |-> source, sink |-> sink, components |-> components]

\* Branch(1, 2, [~e, r]): a source and a resistor with nothing to close the loop
OpenBranch ==
    [leaves |-> <<Leaf("IDEAL_VOLTAGE_SOURCE", 3, -1), Leaf("RESISTOR", 1, 1)>>,
     branches |-> <<BranchArgs(1, 2, <<1, 2>>)>>]

\* Branch(2, 1, [e])
ReversedSource ==
    [leaves |-> <<Leaf("IDEAL_VOLTAGE_SOURCE", 3, 1)>>,
     branches |-> <<BranchArgs(2, 1, <<1>>)>>]

\* Branch(2, 1, [e, r1]), Branch(2, 3, [r2])
ReversedChain ==
    [leaves |-> <<Leaf("IDEAL_VOLTAGE_SOURCE", 3, 1), Leaf("RESISTOR", 1, 1),
                  Leaf("RESISTOR", 2, 1)>>,
     branches |-> <<BranchArgs(2, 1, <<1, 2>>), BranchArgs(2, 3, <<3>>)>>]

\* a source and two resistors between nodes 1 and 2, and two resistors
\* from node 2 to a node of their own each
ShuntedSource ==
    [leaves |-> <<Leaf("IDEAL_VOLTAGE_SOURCE", 3, 1), Leaf("RESISTOR", 1, 1),
                  Leaf("RESISTOR", 1, 1), Leaf("RESISTOR", 1, 1),
                  Leaf("RESISTOR", 1, 1)>>,
     branches |-> <<BranchArgs(1, 2, <<1>>), BranchArgs(1, 2, <<2>>),
                    BranchArgs(1, 2, <<3>>), BranchArgs(2, 3, <<4>>),
                    BranchArgs(2, 4, <<5>>)>>]

\* three branches that meet in node 1
Star ==
    [leaves |-> <<Leaf("IDEAL_VOLTAGE_SOURCE", 3, 1), Leaf("RESISTOR", 1, 1),
                  Leaf("RESISTOR", 1, 1)>>,
     branches |-> <<BranchArgs(1, 2, <<1>>), BranchArgs(1, 3, <<2>>),
                    BranchArgs(4, 1, <<3>>)>>]

\* four nodes, a branch between every two (the shape of the circuits of
\* tests/test_circuit_solver.py): a source on (1, 2), resistors elsewhere
Bridge ==
    [leaves |-> <<Leaf("IDEAL_VOLTAGE_SOURCE", 6, 1), Leaf("RESISTOR", 1, 1),
                  Leaf("RESISTOR", 1, 1), Leaf("RESISTOR", 1, 1),
                  Leaf("RESISTOR", 1, 1), Leaf("RESISTOR", 1, 1)>>,
     branches |-> <<BranchArgs(1, 2, <<1>>), BranchArgs(1, 3, <<2>>),
                    BranchArgs(1, 4, <<3>>), BranchArgs(2, 3, <<4>>),
                    BranchArgs(2, 4, <<5>>), BranchArgs(3, 4, <<6>>)>>]

\* the bridge with its last branch given from node 4 to node 3
CrossedBridge ==
    [leaves |-> Bridge.leaves,
     branches |-> <<BranchArgs(1, 2, <<1>>), BranchArgs(1, 3, <<2>>),
                    BranchArgs(1, 4, <<3>>), BranchArgs(2, 3, <<4>>),
                    BranchArgs(2, 4, <<5>>), BranchArgs(4, 3, <<6>>)>>]

\* three sources in a chain 1-4-3-2, the branch between nodes 3 and 4 listed
\* after the sources of 1-4 and of 2-3, and three resistors
SourceChain ==
    [leaves |-> <<Leaf("IDEAL_VOLTAGE_SOURCE", 6, 1), Leaf("IDEAL_VOLTAGE_SOURCE", 3, 1),
                  Leaf("IDEAL_VOLTAGE_SOURCE", 3, 1), Leaf("RESISTOR", 1, 1),
                  Leaf("RESISTOR", 1, 1), Leaf("RESISTOR", 1, 1)>>,
     branches |-> <<BranchArgs(1, 4, <<1>>), BranchArgs(2, 3, <<2>>),
                    BranchArgs(3, 4, <<3>>), BranchArgs(1, 2, <<4>>),
                    BranchArgs(1, 3, <<5>>), BranchArgs(2, 4, <<6>>)>>]

\* SourceChain with an EMF of 5 on the branch between nodes 3 and 4: the
\* three sources form the chain 1-4-3-2 and no loop
LinkedChains ==
    [leaves |-> <<Leaf("IDEAL_VOLTAGE_SOURCE", 6, 1), Leaf("IDEAL_VOLTAGE_SOURCE", 3, 1),
                  Leaf("IDEAL_VOLTAGE_SOURCE", 5, 1), Leaf("RESISTOR", 1, 1),
                  Leaf("RESISTOR", 1, 1), Leaf("RESISTOR", 1, 1)>>,
     branches |-> <<BranchArgs(1, 4, <<1>>), BranchArgs(2, 3, <<2>>),
                    BranchArgs(3, 4, <<3>>), BranchArgs(1, 2, <<4>>),
                    BranchArgs(1, 3, <<5>>), BranchArgs(2, 4, <<6>>)>>]

\* a source whose two terminals are the same node 1, and two resistors from
\* node 1 to the open nodes 2 and 3
LoopedSource ==
    [leaves |-> <<Leaf("IDEAL_VOLTAGE_SOURCE", 6, 1), Leaf("RESISTOR", 1, 1),
                  Leaf("RESISTOR", 1, 1)>>,
     branches |-> <<BranchArgs(1, 1, <<1>>), BranchArgs(1, 2, <<2>>),
                    BranchArgs(1, 3, <<3>>)>>]

\* three sources around the nodes 1, 2, 3 whose EMFs do not add up
\* (6 + 3 against 3), and three resistors to node 4
SourceTriangle ==
    [leaves |-> <<Leaf("IDEAL_VOLTAGE_SOURCE", 6, 1), Leaf("IDEAL_VOLTAGE_SOURCE", 3, 1),
                  Leaf("IDEAL_VOLTAGE_SOURCE", 3, 1), Leaf("RESISTOR", 1, 1),
                  Leaf("RESISTOR", 1, 1), Leaf("RESISTOR", 1, 1)>>,
     branches |-> <<BranchArgs(1, 2, <<1>>), BranchArgs(2, 3, <<2>>),
                    BranchArgs(1, 3, <<3>>), BranchArgs(1, 4, <<4>>),
                    BranchArgs(2, 4, <<5>>), BranchArgs(3, 4, <<6>>)>>]

\* a resistor from node 1 to itself and a resistor from node 1 to node 2
LoopedPair ==
    [leaves |-> <<Leaf("RESISTOR", 1, 1), Leaf("RESISTOR", 1, 1)>>,
     branches |-> <<BranchArgs(1, 1, <<1>>), BranchArgs(1, 2, <<2>>)>>]

\* a triangle of resistors on the nodes 1, 2, 3 with two resistors between
\* 2 and 3, and a resistor from node 1 to the open node 4
Kite ==
    [leaves |-> <<Leaf("RESISTOR", 1, 1), Leaf("RESISTOR", 1, 1), Leaf("RESISTOR", 1, 1),
                  Leaf("RESISTOR", 1, 1), Leaf("RESISTOR", 1, 1)>>,
     branches |-> <<BranchArgs(1, 3, <<1>>), BranchArgs(1, 2, <<2>>),
                    BranchArgs(2, 3, <<3>>), BranchArgs(2, 3, <<4>>),
                    BranchArgs(1, 4, <<5>>)>>]

Circuits == {OpenBranch, ReversedSource, ReversedChain, ShuntedSource, Star, Bridge,
             CrossedBridge, SourceChain, LoopedSource, SourceTriangle, LoopedPair,
             Kite, LinkedChains}

\* The heap after the client created the leaves of circuit c.
Leaves(c) ==
    [i \in 1 .. Len(c.leaves) |->
        [NewObj(c.leaves[i].kind, c.leaves[i].value)
            EXCEPT !.orientation = c.leaves[i].orientation]]

\* The state when the client starts: the leaves exist, no Branch yet.  The
\* field warnings of sv lists the warnings the run has signalled so far;
\* solve and the methods it calls hold no statement that signals one.
InitSolver ==
    /\ iv = [op |-> "", x |-> short_circuit, y |-> short_circuit, res |-> Ret(short_circuit)]
    /\ \E c \in Circuits, r \in BOOLEAN, omega \in Omegas :
           /\ heap = Leaves(c)
           /\ sv = [pc |-> "branches", circuit |-> c, reduce |-> r, omega |-> omega,
                    pass |-> 1, branch_count |-> 0, node_to_branches |-> <<>>,
                    i |-> 1, merged |-> NoMerge, components |-> <<>>,
                    shortcut |-> FALSE, exc |-> "", warnings |-> <<>>]
    /\ roots = {}
    /\ last = NoCall
    /\ nops = 0
    /\ branches = <<>>
    /\ node_potentials = <<>>
    /\ node_currents = <<>>
    /\ branch_currents = <<>>
    /\ reference_node = 0
    /\ params = <<>>
    /\ history = <<>>

client_vars == <<iv, roots, last, nops>>

solver_dicts == <<node_potentials, node_currents, branch_currents, reference_node,
                  params, history>>

\* The exception exc leaves the run.
Raised(exc) == [sv EXCEPT !.pc = "raised", !.exc = exc, !.merged = NoMerge]

\* The client builds the next Branch of its list; with the last one it
\* calls CircuitSolver(branches).
NewBranch ==
    LET a == sv.circuit.branches[Len(branches) + 1]
        return(r) ==
            /\ heap' = r.h
            /\ branches' = IF r.exc = "" THEN Append(branches, r.val) ELSE branches
            /\ sv' = IF r.exc # "" THEN Raised(r.exc)
                     ELSE IF Len(branches) + 1 < Len(sv.circuit.branches) THEN sv
                     ELSE [sv EXCEPT !.pc = IF sv.reduce THEN "reduce" ELSE "init"]
    IN  /\ sv.pc = "branches"
        /\ return(Branch(heap, a.source, a.sink, a.components))
        /\ UNCHANGED <<client_vars, solver_dicts>>

\* reduce_circuit after a pass that returned reduced: a series pass, a
\* parallel pass, then alternately one of each until a pass leaves the
\* number of branches unchanged.
AfterPass(reduced) ==
    IF sv.pass >= 3 /\ Len(reduced) = sv.branch_count
    THEN [sv EXCEPT !.pc = "init", !.merged = NoMerge]
    ELSE [sv EXCEPT !.pc = "reduce", !.pass = sv.pass + 1, !.merged = NoMerge,
                    !.branch_count = IF sv.pass >= 2 THEN Len(reduced) ELSE @]

\* _reduce_series: the mapping from nodes to branches
ReduceSeriesBegin ==
    /\ sv.pc = "reduce"
    /\ sv.pass % 2 = 1
    /\ sv' = [sv EXCEPT !.pc = "series", !.i = 1,
                        !.node_to_branches = node_to_branches(<<>>, branches, 1)]
    /\ UNCHANGED <<heap, branches, client_vars, solver_dicts>>

\* _reduce_series: the next node of the mapping
ReduceSeriesNode ==
    LET return(r) ==
            /\ heap' = r.h
            /\ sv' = IF r.exc # "" THEN Raised(r.exc)
                     ELSE [sv EXCEPT !.i = sv.i + 1,
                                     !.node_to_branches = r.val.node_to_branches,
                                     !.merged = r.val.merged]
    IN  /\ sv.pc = "series"
        /\ sv.i <= Len(sv.node_to_branches)
        /\ return(reduce_series_node(heap, sv.node_to_branches, sv.i))
        /\ UNCHANGED <<branches, client_vars, solver_dicts>>

\* _reduce_series: the resulting branches
ReduceSeriesEnd ==
    /\ sv.pc = "series"
    /\ sv.i > Len(sv.node_to_branches)
    /\ branches' = resulting_branches(sv.node_to_branches, 1)
    /\ sv' = AfterPass(branches')
    /\ UNCHANGED <<heap, client_vars, solver_dicts>>

ReduceParallel ==
    LET return(r) ==
            /\ heap' = r.h
            /\ branches' = IF r.exc = "" THEN r.val ELSE branches
            /\ sv' = IF r.exc # "" THEN Raised(r.exc) ELSE AfterPass(r.val)
    IN  /\ sv.pc = "reduce"
        /\ sv.pass % 2 = 0
        /\ return(_reduce_parallel(heap, branches))
        /\ UNCHANGED <<client_vars, solver_dicts>>

\* The rest of CircuitSolver.__init__: _init_components_dict, _init_nodes,
\* _init_optimizer.
SolverInit ==
    LET return(components, st) ==
            /\ node_potentials' = st.node_potentials
            /\ branch_currents' = st.branch_currents
            /\ reference_node' = st.reference_node
            /\ params' = IF st.exc # "" THEN params
                         ELSE _init_optimizer(st.node_potentials, st.branch_currents,
                                              st.reference_node)
            /\ sv' = IF st.exc # ""
                     THEN [Raised(st.exc) EXCEPT !.components = components]
                     ELSE [sv EXCEPT !.pc = "solve", !.components = components]
    IN  /\ sv.pc = "init"
        /\ return(_init_components_dict(heap, branches, 1),
                  _init_nodes(heap, branches, node_potentials, branch_currents))
        /\ UNCHANGED <<heap, branches, node_currents, history, client_vars>>

\* solve(omega) on a circuit of one branch
SolveSingleBranch ==
    LET return(r) ==
            /\ heap' = r.h
            /\ sv' = IF r.exc # "" THEN Raised(r.exc)
                     ELSE [sv EXCEPT !.pc = "done", !.shortcut = TRUE]
    IN  /\ sv.pc = "solve"
        /\ Len(branches) = 1
        /\ return(solve_single_branch(heap, branches, sv.omega))
        /\ UNCHANGED <<branches, client_vars, solver_dicts>>

\* The parameters after optimizer.step: parameter k holds f[k].
RECURSIVE step(_, _, _, _)
step(np, bc, f, k) ==
    IF k > Len(params) THEN [node_potentials |-> np, branch_currents |-> bc]
    ELSE IF params[k].dict = "node_potentials"
    THEN step([np EXCEPT ![dict_index(np, params[k].key)].val.data = f[k]], bc, f, k + 1)
    ELSE step(np, [bc EXCEPT ![dict_index(bc, params[k].key)].val.data = f[k]], f, k + 1)

\* The stopping tests of the loop without the comparison with the previous
\* loss.
loop_break_on_zero(hist, loss) == loss = CZero

\* The stopping tests of the loop of solve, for the loss of the current epoch
\* and the history of the epochs before it: math.isclose(loss, 0) or, from
\* the second epoch on, math.isclose(history[-2], loss).
loop_break(hist, loss) ==
    \/ loss = CZero
    \/ Len(hist) > 0 /\ hist[Len(hist)] = loss

\* One epoch of the loop of solve: the loss, the stopping tests, and the
\* optimizer step with the refresh of the dependent potentials.
SolveEpoch ==
    LET optimize(s) ==
            /\ node_potentials' = _update_dependent_nodes(s.node_potentials)
            /\ branch_currents' = s.branch_currents
        epoch(l) ==
            /\ heap' = l.h
            /\ node_currents' = l.node_currents
            /\ IF l.exc # ""
               THEN /\ sv' = Raised(l.exc)
                    /\ UNCHANGED <<history, node_potentials, branch_currents>>
               ELSE /\ history' = Append(history, l.val)
                    /\ IF loop_break(history, l.val)
                       THEN /\ sv' = [sv EXCEPT !.pc = "apply"]
                            /\ UNCHANGED <<node_potentials, branch_currents>>
                       ELSE /\ sv' = sv
                            /\ \E f \in [1 .. Len(params) -> ParamValues] :
                                   optimize(step(node_potentials, branch_currents, f, 1))
    IN  /\ sv.pc = "solve"
        /\ Len(branches) # 1
        /\ Len(history) < MaxEpochs
        /\ epoch(_loss(heap, branches, node_potentials, node_currents,
                       branch_currents, sv.omega))
        /\ UNCHANGED <<branches, reference_node, params, client_vars>>

\* The end of solve after the loop: _apply_node_voltages, and the return.
SolveFinish ==
    LET return(r) ==
            /\ heap' = r.h
            /\ sv' = IF r.exc # "" THEN Raised(r.exc) ELSE [sv EXCEPT !.pc = "done"]
    IN  /\ \/ sv.pc = "apply"
           \/ sv.pc = "solve" /\ Len(branches) # 1 /\ Len(history) >= MaxEpochs
        /\ return(_apply_node_voltages(heap, branches, node_potentials,
                                       branch_currents, sv.omega))
        /\ UNCHANGED <<branches, client_vars, solver_dicts>>

\* The client calls state_at(label) on the solver it constructed, before
\* solve or after solve returned, and the run ends there.  The labels it
\* asks for are that of its first leaf, and 0 for a label no component has.
StateAt ==
    \E label \in {0, 1} :
        LET return(r) ==
                /\ last' = Call("state_at", label, 0, r.exc, r.val, short_circuit,
                                CZero, sv.omega)
                /\ sv' = [sv EXCEPT !.pc = "queried"]
        IN  /\ \/ sv.pc = "solve" /\ history = <<>>
               \/ sv.pc = "done"
            /\ return(state_at(heap, sv.components, label))
            /\ UNCHANGED <<heap, branches, iv, roots, nops, solver_dicts>>

NextSolver ==
    \/ NewBranch
    \/ ReduceSeriesBegin
    \/ ReduceSeriesNode
    \/ ReduceSeriesEnd
    \/ ReduceParallel
    \/ SolverInit
    \/ SolveSingleBranch
    \/ SolveEpoch
    \/ SolveFinish
    \/ StateAt

SpecSolver == InitSolver /\ [][NextSolver]_vars

----------------------------------------------------------------------------
(* Properties of the solver (checked under SpecSolver).                    *)

\* The signed sum at node of the currents recorded on the branch bodies:
\* body.current * orientation, + at the source and - at the sink.
RECURSIVE RecordedNodeCurrent(_, _, _, _)
RecordedNodeCurrent(h, brs, node, i) ==
    IF i > Len(brs) THEN CZero
    ELSE LET c == COrient(h[brs[i].components].current, h[brs[i].components].orientation)
         IN  CAdd(CAdd(IF brs[i].source = node THEN c ELSE CZero,
                       IF brs[i].sink = node THEN CNeg(c) ELSE CZero),
                  RecordedNodeCurrent(h, brs, node, i + 1))

\* solve returned, by its single-branch shortcut or from a loop that ended
\* on a loss of 0.
Solved ==
    /\ sv.pc = "done"
    /\ sv.shortcut \/ history[Len(history)] = CZero

\* C1: after solve returns, the recorded branch currents add up to 0 at
\* every node other than the reference node, also when the circuit is a
\* single branch.
C1_KirchhoffCurrentLaw ==
    Solved =>
        \A k \in DOMAIN node_potentials :
            node_potentials[k].key # reference_node =>
                RecordedNodeCurrent(heap, branches, node_potentials[k].key, 1) = CZero

\* The characteristic of a branch taken from node from to its other terminal.
BranchCharFrom(h, branch, from, omega) ==
    IF branch.source = from
    THEN OrientedChar(h, branch.components, omega).val
    ELSE IVChar_invert(OrientedChar(h, branch.components, omega).val)

\* C2: when the series pass merges the branches p - n and n - q at node n,
\* the characteristic of the merged branch from p to q is the series
\* composition of the first branch's characteristic from p to n and the
\* second branch's from n to q.
C2_SeriesMergePreservesCharacteristic ==
    [][(sv'.pc = "series" /\ sv'.merged.node # 0
            /\ other_terminal(sv'.merged.first, sv'.merged.node) # sv'.merged.node
            /\ other_terminal(sv'.merged.second, sv'.merged.node) # sv'.merged.node)
       => LET m == sv'.merged
              expected ==
                  IVChar_and(
                      BranchCharFrom(heap, m.first, other_terminal(m.first, m.node),
                                     sv.omega),
                      BranchCharFrom(heap, m.second, m.node, sv.omega))
          IN  expected.exc = ""
                  => BranchCharFrom(heap', m.new, other_terminal(m.first, m.node),
                                    sv.omega) = expected.val]_vars

\* The branches of circuit c as the client builds them.
RECURSIVE build_branches(_, _, _, _)
build_branches(h, args, i, acc) ==
    LET continue(r) ==
            IF r.exc # "" THEN r ELSE build_branches(r.h, args, i + 1, Append(acc, r.val))
    IN  IF i > Len(args) THEN HRet(h, acc)
        ELSE continue(Branch(h, args[i].source, args[i].sink, args[i].components))

\* Construction and solve on the branch list brs as it is.  Whether a call
\* raises depends on the kinds and characteristics of the bodies, not on
\* the values of the parameters, so one epoch decides it.
SolveCompletes(h, brs, omega) ==
    LET applied(st, l) ==
            l.exc = "" /\ _apply_node_voltages(l.h, brs, st.node_potentials,
                                               st.branch_currents, omega).exc = ""
        solved(st) ==
            /\ st.exc = ""
            /\ IF Len(brs) = 1 THEN solve_single_branch(h, brs, omega).exc = ""
               ELSE applied(st, _loss(h, brs, st.node_potentials, <<>>,
                                      st.branch_currents, omega))
    IN  solved(_init_nodes(h, brs, <<>>, <<>>))

UnreducedSolveCompletes(c, omega) ==
    LET built(b) == b.exc = "" /\ SolveCompletes(b.h, b.val, omega)
    IN  built(build_branches(Leaves(c), c.branches, 1, <<>>))

\* C3: when construction and solve complete on the branches used as they
\* are, they complete on the list reduce_circuit returns.
C3_ReductionKeepsSolvable ==
    (sv.pc = "raised" /\ sv.reduce) => ~UnreducedSolveCompletes(sv.circuit, sv.omega)

\* C4: after solve returns, on every branch (u, v) the body's voltage is
\* potential[u] - potential[v], and the current of a voltage-source body
\* is the branch current.
C4_BranchStateMatchesPotentials ==
    sv.pc = "done" =>
        \A j \in DOMAIN branches :
            LET body == heap[branches[j].components] IN
            /\ body.voltage = CSub(dict_get(node_potentials, branches[j].source).data,
                                   dict_get(node_potentials, branches[j].sink).data)
            /\ body.kind = "IDEAL_VOLTAGE_SOURCE"
                   => body.current = dict_get(branch_currents, j).data

\* The orientation the body of a branch has before the source/sink order is
\* looked at: that of the component given when there is one, and that of a
\* new Series otherwise.
GivenOrientation(a) ==
    IF Len(a.components) = 1 THEN heap[a.components[1]].orientation ELSE 1

\* C12: every Branch has source <= sink; the constructor given src > sink
\* swaps the pair and negates the body's orientation once, and given
\* src <= sink it leaves the pair and the body's orientation as they are.
C12_BranchCanonicalForm ==
    /\ [](/\ \A j \in DOMAIN branches : branches[j].source <= branches[j].sink
          /\ sv.pc = "series" =>
                 \A k \in DOMAIN sv.node_to_branches :
                     \A j \in DOMAIN sv.node_to_branches[k].val :
                         sv.node_to_branches[k].val[j].source
                             <= sv.node_to_branches[k].val[j].sink)
    /\ [][(sv.pc = "branches" /\ Len(branches') = Len(branches) + 1) =>
             LET a == sv.circuit.branches[Len(branches) + 1]
                 b == branches'[Len(branches')]
             IN  IF a.source > a.sink
                 THEN /\ b.source = a.sink /\ b.sink = a.source
                      /\ heap'[b.components].orientation = -GivenOrientation(a)
                 ELSE /\ b.source = a.source /\ b.sink = a.sink
                      /\ heap'[b.components].orientation = GivenOrientation(a)]_vars

\* A branch was built from a pair with src > sink.
C12_Witness ==
    /\ Len(branches) >= 1
    /\ sv.pc = "branches"
    /\ sv.circuit.branches[1].source > sv.circuit.branches[1].sink
    /\ branches[1].source < branches[1].sink
    /\ heap[branches[1].components].orientation = -1

\* The loop of solve ran MAX_EPOCHS epochs and the last loss met neither
\* stopping test.
NotConverged ==
    /\ ~sv.shortcut
    /\ Len(history) = MaxEpochs
    /\ history[Len(history)] # CZero
    /\ Len(history) > 1 => history[Len(history) - 1] # history[Len(history)]

\* C13: when the loop of solve reaches MAX_EPOCHS without meeting either
\* stopping tolerance, solve signals a not-converged warning and returns the
\* complete loss history with the node potentials.
C13_NotConvergedWarning ==
    (sv.pc = "done" /\ NotConverged) =>
        /\ sv.warnings # <<>>
        /\ Len(history) = MaxEpochs
        /\ node_potentials # <<>>

\* C14: state_at(label) returns None, and does not raise, for a label that
\* names no component of the solver's circuit and for a registered
\* component that has no recorded state yet.
C14_StateAtAbsent ==
    (last.op = "state_at"
        /\ (list_index(sv.components, last.a) = 0 \/ ~heap[last.a].has_state))
    => (last.exc = "" /\ last.res.none)

----------------------------------------------------------------------------
(* The autodiff engine (micrograd.py).  In SpecGrad the heap holds Value   *)
(* objects: data, grad, the operator tag _op ("" for a leaf) and the       *)
(* parents _prev, a tuple of object identities.                            *)

CConj(x) == <<x[1], -x[2], x[3]>>
CReal(x) == CNorm(x[1], 0, x[3])

\* Value.__init__
Value_init(data, _children, _op) ==
    [data |-> data, grad |-> CZero, _op |-> _op, _prev |-> _children]

\* Value.__add__ and Value.__mul__ for another Value, and Value.__abs__:
\* the heap with the new node out appended.
Value_plus(h, self, other) ==
    Append(h, Value_init(CAdd(h[self].data, h[other].data), <<self, other>>, "+"))

\* self + other and self - other for a complex other: the complex number
\* in _prev is no Value, build_topo skips it and _prev keeps the Value only.
Value_plus_complex(h, self, other) ==
    Append(h, Value_init(CAdd(h[self].data, other), <<self>>, "+"))

Value_mul(h, self, other) ==
    Append(h, Value_init(CMul(h[self].data, h[other].data), <<self, other>>, "*"))

Value_abs(h, self) ==
    Append(h, Value_init(CAbs2(h[self].data), <<self>>, ".abs"))

\* A variant of the closures in which a product hands each parent its own
\* data instead of the other parent's.
_backward_own_data(h, out) ==
    LET self == h[out]._prev[1]
        other == h[out]._prev[2]
    IN  CASE h[out]._op = "+" /\ Len(h[out]._prev) = 2 ->
                 LET h1 == [h EXCEPT ![self].grad = CAdd(@, h[out].grad)]
                 IN  [h1 EXCEPT ![other].grad = CAdd(@, h1[out].grad)]
          [] h[out]._op = "+" /\ Len(h[out]._prev) = 1 ->
                 [h EXCEPT ![self].grad = CAdd(@, h[out].grad)]
          [] h[out]._op = "*" ->
                 LET h1 == [h EXCEPT ![self].grad =
                                CAdd(@, CMul(h[self].data, h[out].grad))]
                 IN  [h1 EXCEPT ![other].grad =
                         CAdd(@, CMul(h1[other].data, h1[out].grad))]
          [] h[out]._op = ".abs" ->
                 [h EXCEPT ![self].grad =
                     CAdd(@, CMul(CMul(CInt(2), CConj(h[self].data)),
                                  CReal(h[out].grad)))]
          [] OTHER -> h

\* The closure _backward of node out.
_backward(h, out) ==
    LET self == h[out]._prev[1]
        other == h[out]._prev[2]
    IN  CASE h[out]._op = "+" /\ Len(h[out]._prev) = 2 ->
                 LET h1 == [h EXCEPT ![self].grad = CAdd(@, h[out].grad)]
                 IN  [h1 EXCEPT ![other].grad = CAdd(@, h1[out].grad)]
          [] h[out]._op = "+" /\ Len(h[out]._prev) = 1 ->
                 [h EXCEPT ![self].grad = CAdd(@, h[out].grad)]
          [] h[out]._op = "*" ->
                 LET h1 == [h EXCEPT ![self].grad =
                                CAdd(@, CMul(h[other].data, h[out].grad))]
                 IN  [h1 EXCEPT ![other].grad =
                         CAdd(@, CMul(h1[self].data, h1[out].grad))]
          [] h[out]._op = ".abs" ->
                 [h EXCEPT ![self].grad =
                     CAdd(@, CMul(CMul(CInt(2), CConj(h[self].data)),
                                  CReal(h[out].grad)))]
          [] OTHER -> h

\* set(v._prev) in the order the for loop of build_topo visits it; the
\* order of a set of objects is not fixed, reversed picks one of the two.
children(h, v, reversed) ==
    LET p == h[v]._prev
    IN  IF Len(p) = 2 /\ p[1] # p[2]
        THEN IF reversed THEN <<p[2], p[1]>> ELSE p
        ELSE IF Len(p) = 0 THEN <<>> ELSE <<p[1]>>

\* build_topo(v): st holds visited and topo.
RECURSIVE build_topo(_, _, _, _)
RECURSIVE build_topo_loop(_, _, _, _, _)
\* build_topo with topo.append(v) before the loop over the children
build_topo_preorder(h, v, st, reversed) ==
    IF v \in st.visited THEN st
    ELSE build_topo_loop(h, children(h, v, reversed), 1,
             [st EXCEPT !.visited = st.visited \cup {v}, !.topo = Append(st.topo, v)],
             reversed)

build_topo(h, v, st, reversed) ==
    LET append(after) == [after EXCEPT !.topo = Append(after.topo, v)]
    IN  IF v \in st.visited THEN st
        ELSE append(build_topo_loop(h, children(h, v, reversed), 1,
                        [st EXCEPT !.visited = st.visited \cup {v}], reversed))

build_topo_loop(h, cs, i, st, reversed) ==
    IF i > Len(cs) THEN st
    ELSE build_topo_loop(h, cs, i + 1, build_topo(h, cs[i], st, reversed), reversed)

\* for v in reversed(topo): v._backward()
RECURSIVE backward_loop(_, _, _)
backward_loop(h, topo, i) ==
    IF i = 0 THEN h ELSE backward_loop(_backward(h, topo[i]), topo, i - 1)

\* Value.backward
backward(h, self, reversed) ==
    LET run(st) == backward_loop([h EXCEPT ![self].grad = COne], st.topo, Len(st.topo))
    IN  run(build_topo(h, self, [visited |-> {}, topo |-> <<>>], reversed))

\* The client of the engine: one or two leaves, then expressions over the
\* values it has (at most MaxValues objects) and at most MaxBackward calls of
\* backward.
MaxValues == 4
MaxBackward == 1
LeafData == {CInt(-2), <<1, 1, 1>>}

InitGrad ==
    /\ \E x, y \in LeafData :
           \/ heap = <<Value_init(x, <<>>, "")>>
           \/ heap = <<Value_init(x, <<>>, ""), Value_init(y, <<>>, "")>>
    /\ iv = [op |-> "", x |-> short_circuit, y |-> short_circuit, res |-> Ret(short_circuit)]
    /\ roots = {}
    /\ last = NoCall
    /\ nops = 0
    /\ SolverIdle

GradAdd ==
    \E a, b \in DOMAIN heap :
        /\ a <= b
        /\ Len(heap) < MaxValues
        /\ heap' = Value_plus(heap, a, b)
        /\ last' = Call("add", a, b, "", Len(heap) + 1, short_circuit, CZero, 0)
        /\ UNCHANGED <<iv, roots, nops, solver_vars>>

GradMul ==
    \E a, b \in DOMAIN heap :
        /\ a <= b
        /\ Len(heap) < MaxValues
        /\ heap' = Value_mul(heap, a, b)
        /\ last' = Call("mul", a, b, "", Len(heap) + 1, short_circuit, CZero, 0)
        /\ UNCHANGED <<iv, roots, nops, solver_vars>>

GradAbs ==
    \E a \in DOMAIN heap :
        /\ Len(heap) < MaxValues
        /\ heap' = Value_abs(heap, a)
        /\ last' = Call("abs", a, 0, "", Len(heap) + 1, short_circuit, CZero, 0)
        /\ UNCHANGED <<iv, roots, nops, solver_vars>>

\* backward() on the value made last
GradBackward ==
    \E z \in {Len(heap)}, reversed \in BOOLEAN :
        /\ nops < MaxBackward
        /\ heap' = backward(heap, z, reversed)
        /\ nops' = nops + 1
        /\ last' = Call("backward", z, 0, "", 0, short_circuit, CZero, 0)
        /\ UNCHANGED <<iv, roots, solver_vars>>

NextGrad == GradAdd \/ GradMul \/ GradAbs \/ GradBackward

SpecGrad == InitGrad /\ [][NextGrad]_vars

\* C15: for leaves a and b that no earlier backward has reached and
\* z = a * b, z.backward() leaves z.grad = 1, a.grad = b.data and
\* b.grad = a.data, and a.grad = 2 * a.data when a and b are the same node.
C15_MultiplicationGradient ==
    [][(last'.op = "backward" /\ heap[last'.a]._op = "*"
          /\ \A p \in {heap[last'.a]._prev[1], heap[last'.a]._prev[2]} :
                 heap[p]._op = "" /\ heap[p].grad = CZero)
       => LET z == last'.a
              a == heap[z]._prev[1]
              b == heap[z]._prev[2]
          IN  /\ heap'[z].grad = COne
              /\ a # b => /\ heap'[a].grad = heap[b].data
                          /\ heap'[b].grad = heap[a].data
              /\ a = b => heap'[a].grad = CMul(CInt(2), heap[a].data)]_vars

\* backward ran on a product of two different leaves with different data.
C15_Witness ==
    /\ last.op = "backward"
    /\ heap[last.a]._op = "*"
    /\ heap[last.a]._prev[1] # heap[last.a]._prev[2]
    /\ heap[heap[last.a]._prev[1]]._op = ""
    /\ heap[heap[last.a]._prev[2]]._op = ""
    /\ heap[heap[last.a]._prev[1]].grad = heap[heap[last.a]._prev[2]].data
    /\ heap[heap[last.a]._prev[1]].grad # heap[heap[last.a]._prev[2]].grad
    /\ nops = 1

\* C16: after the optimisation loop, every ideal-voltage-source branch j holds
\* the current branch_currents[j] multiplied by the orientation of the body of
\* that same branch j.
C16_SourceCurrentOrientation ==
    (sv.pc = "done" /\ ~sv.shortcut /\ history # <<>>) =>
        \A k \in DOMAIN branch_currents :
            LET body == branches[branch_currents[k].key].components
            IN  heap[body].current =
                    COrient(branch_currents[k].val.data, heap[body].orientation)

\* the oriented EMF of the body of a branch (voltage_delta)
branch_voltage_delta(h, branch) ==
    COrient(h[branch.components].value, h[branch.components].orientation)

\* C17: after construction, and after every optimizer step followed by the
\* refresh of the dependent potentials, every branch whose body is an ideal
\* voltage source satisfies potential[source] - potential[sink] = oriented EMF.
C17_SourceBranchConstraint ==
    (sv.pc = "solve" /\ sv.exc = "") =>
        \A j \in DOMAIN branches :
            heap[branches[j].components].kind = "IDEAL_VOLTAGE_SOURCE" =>
                CSub(dict_get(node_potentials, branches[j].source).data,
                     dict_get(node_potentials, branches[j].sink).data)
                    = branch_voltage_delta(heap, branches[j])

\* the ideal-voltage-source branches, by their index in self.branches
SourceBranches ==
    {j \in DOMAIN branches : heap[branches[j].components].kind = "IDEAL_VOLTAGE_SOURCE"}

\* the keys of the node potentials that are not leaves
DependentPotentials ==
    {node_potentials[k].key : k \in {i \in DOMAIN node_potentials :
                                        ~node_potentials[i].val.is_leaf}}

\* the parameters handed to the optimizer, as a set
LearnableParams == {params[k] : k \in DOMAIN params}

\* C18: right after construction the parameters of the optimizer are the
\* leaf potentials of the nodes other than the reference node and one
\* current per ideal-voltage-source branch; their number is
\* (#nodes - 1 - #dependent potentials) + #voltage-source branches, and
\* every parameter is a leaf.
C18_OptimizerParameters ==
    (sv.pc = "solve" /\ history = <<>>) =>
        /\ LearnableParams =
               {[dict |-> "node_potentials", key |-> node_potentials[k].key] :
                    k \in {i \in DOMAIN node_potentials :
                              /\ node_potentials[i].key # reference_node
                              /\ node_potentials[i].val.is_leaf}}
               \cup {[dict |-> "branch_currents", key |-> j] : j \in SourceBranches}
        /\ Cardinality(LearnableParams) = Len(params)
        /\ Len(params) = (Len(node_potentials) - 1 - Cardinality(DependentPotentials))
                             + Cardinality(SourceBranches)
        /\ \A k \in DOMAIN params :
               IF params[k].dict = "node_potentials"
               THEN dict_get(node_potentials, params[k].key).is_leaf
               ELSE dict_get(branch_currents, params[k].key).is_leaf

\* The voltage-source pass of _init_nodes in a fresh process, after the
\* first n branches.
VoltageSourcePass(n) ==
    init_voltage_sources(heap, SubSeq(branches, 1, n), 1,
        [exc |-> "", reference_node |-> 0,
         node_potentials |-> <<>>, branch_currents |-> <<>>])

\* both end nodes of branch j have a potential in the pass state st
BothKnown(st, j) ==
    /\ dict_has(st.node_potentials, branches[j].source)
    /\ dict_has(st.node_potentials, branches[j].sink)

\* potential[source] - potential[sink] of branch j in st differs from the
\* oriented EMF
Mismatch(st, j) ==
    CSub(dict_get(st.node_potentials, branches[j].source).data,
         dict_get(st.node_potentials, branches[j].sink).data)
        # branch_voltage_delta(heap, branches[j])

\* the iteration of the pass for source branch j, from before to after
SourceBranchStep(before, after, j) ==
    before.exc = "" =>
        /\ BothKnown(before, j) =>
               IF Mismatch(before, j)
               THEN after.exc = "RuntimeError"
               ELSE /\ after.exc = ""
                    /\ after.node_potentials = before.node_potentials
        /\ after.exc = "" => dict_has(after.branch_currents, j)

\* C19: in the voltage-source pass, a source branch whose two end nodes
\* both have potentials already raises the configuration error when
\* potential[source] - potential[sink] differs from its oriented EMF and
\* otherwise assigns no potential; whenever the iteration does not raise, a
\* branch current is registered for the branch.
C19_BothKnownSourceBranch ==
    /\ sv.pc = "init" =>
           \A j \in SourceBranches :
               SourceBranchStep(VoltageSourcePass(j - 1), VoltageSourcePass(j), j)
    /\ (sv.pc = "solve" /\ history = <<>>) =>
           \A j \in SourceBranches : dict_has(branch_currents, j)

C19_Witness ==
    /\ sv.pc = "raised"
    /\ sv.exc = "RuntimeError"
    /\ sv.reduce
    /\ \E j \in SourceBranches :
           /\ BothKnown(VoltageSourcePass(j - 1), j)
           /\ Mismatch(VoltageSourcePass(j - 1), j)
           /\ ~dict_has(branch_currents, j)

\* C20: from the end of construction to the return of solve, the potential
\* of the reference node is a leaf of value 0.
C20_ReferencePotentialZero ==
    (sv.pc \in {"solve", "apply", "done"} /\ reference_node # 0) =>
        /\ dict_get(node_potentials, reference_node).is_leaf
        /\ dict_get(node_potentials, reference_node).data = CZero

\* a branch from a node to itself
IsSelfLoop(branch) == branch.source = branch.sink

\* C21: in the series pass a self-loop branch is never one of the two
\* branches merged at a node, and every self-loop of the list the pass
\* starts from is in the list the pass returns.
C21_SelfLoopUntouched ==
    [][/\ (sv.pc = "series" /\ sv'.pc = "series" /\ sv'.merged.node # 0) =>
              /\ ~IsSelfLoop(sv'.merged.first)
              /\ ~IsSelfLoop(sv'.merged.second)
       /\ (sv.pc = "series" /\ sv'.pc \in {"reduce", "init"}) =>
              \A j \in DOMAIN branches :
                  IsSelfLoop(branches[j]) =>
                      \E k \in DOMAIN branches' : branches'[k] = branches[j]]_vars

\* The loop of _reduce_series over the nodes of the mapping d, from the
\* i-th on, and the list the pass returns.
RECURSIVE reduce_series_loop(_, _, _)
reduce_series_loop(h, d, i) ==
    LET continue(r) ==
            IF r.exc # "" THEN r
            ELSE reduce_series_loop(r.h, r.val.node_to_branches, i + 1)
    IN  IF i > Len(d) THEN HRet(h, resulting_branches(d, 1))
        ELSE continue(reduce_series_node(h, d, i))

_reduce_series(h, initial_branches) ==
    reduce_series_loop(h, node_to_branches(<<>>, initial_branches, 1), 1)

\* the pass result r has as many branches as self.branches
SameBranchCount(r) == r.exc = "" /\ Len(r.val) = Len(branches)

\* C22: the list reduce_circuit returns is a fixed point of both passes:
\* _reduce_series and _reduce_parallel applied to it leave the number of
\* branches unchanged.
C22_ReducedFixedPoint ==
    (sv.pc = "init" /\ sv.reduce) =>
        /\ SameBranchCount(_reduce_series(heap, branches))
        /\ SameBranchCount(_reduce_parallel(heap, branches))

\* the k-th loss of hist meets one of the two stopping tests
StopAt(hist, k) ==
    \/ hist[k] = CZero
    \/ k > 1 /\ hist[k] = hist[k - 1]

\* C23: the loop of solve evaluates the loss at most MAX_EPOCHS times and
\* stops at the first epoch whose loss is 0 or, from the second epoch on,
\* equal to the previous loss; no optimizer step follows the loss evaluation
\* that triggered the stop; the history has one entry per loss evaluation.
C23_LoopTermination ==
    /\ [](Len(history) <= MaxEpochs)
    /\ [](\A k \in 1 .. Len(history) - 1 : ~StopAt(history, k))
    /\ []((sv.pc = "solve" /\ history # <<>>) => ~StopAt(history, Len(history)))
    /\ [][history' # history =>
              /\ sv.pc = "solve"
              /\ Len(history') = Len(history) + 1
              /\ SubSeq(history', 1, Len(history)) = history
              /\ StopAt(history', Len(history')) =>
                     /\ sv'.pc = "apply"
                     /\ node_potentials' = node_potentials
                     /\ branch_currents' = branch_currents]_vars

C23_Witness ==
    /\ sv.pc = "apply"
    /\ Len(history) = 2
    /\ history[1] # CZero
    /\ history[2] = history[1]

\* the values in v._prev
Parents(h, v) == {h[v]._prev[i] : i \in DOMAIN h[v]._prev}

\* the values reachable from those of S through _prev
RECURSIVE ReachableFrom(_, _)
ReachableFrom(h, S) ==
    LET next == S \cup UNION {Parents(h, v) : v \in S}
    IN  IF next = S THEN S ELSE ReachableFrom(h, next)

\* topo as backward builds it from the root self
TopoOrder(h, self, reversed) ==
    build_topo(h, self, [visited |-> {}, topo |-> <<>>], reversed).topo

\* topo lists each value of reach once, and each value after all the values
\* of its _prev; reversed(topo) then runs a closure only after the closures
\* of all the values that have its owner in their _prev, ending at the root
ConsumersFirst(h, topo, reach, self) ==
    /\ {topo[i] : i \in DOMAIN topo} = reach
    /\ Len(topo) = Cardinality(reach)
    /\ topo[Len(topo)] = self
    /\ \A i \in DOMAIN topo :
           \A p \in Parents(h, topo[i]) : \E j \in 1 .. i - 1 : topo[j] = p

\* C24: backward on a root visits every value reachable from it once, runs
\* each closure once and only after the closures of all the values that use
\* the closure's owner as a parent, and leaves the root's grad at 1.
C24_BackwardOrder ==
    /\ [](\A self \in DOMAIN heap, reversed \in BOOLEAN :
              ConsumersFirst(heap, TopoOrder(heap, self, reversed),
                             ReachableFrom(heap, {self}), self))
    /\ [][last'.op = "backward" => heap'[last'.a].grad = COne]_vars

\* backward ran on a sum whose first parent is not a leaf and is also a
\* parent of the second parent.
C24_Witness ==
    /\ last.op = "backward"
    /\ heap[last.a]._op = "+"
    /\ heap[last.a]._prev[1] # heap[last.a]._prev[2]
    /\ heap[heap[last.a]._prev[1]]._op # ""
    /\ heap[last.a]._prev[1] \in Parents(heap, heap[last.a]._prev[2])
    /\ heap[last.a].grad = COne


----------------------------------------------------------------------------
(* The epochs of solve seen by the autodiff engine (SpecEpoch): the heap   *)
(* holds the Values of one learnable potential, sv.param, and of one       *)
(* dependent potential, sv.dependent = param - voltage_delta, both made by *)
(* _init_nodes; every epoch builds a new loss over them.                   *)

\* Optimizer.zero_grad
zero_grad(h, parameters) ==
    [v \in DOMAIN h |->
        IF v \in parameters THEN [h[v] EXCEPT !.grad = CZero] ELSE h[v]]

\* _update_dependent_nodes for the dependent potential node
update_dependent_node(h, node, voltage_delta) ==
    [h EXCEPT ![node].data = CAdd(h[h[node]._prev[1]].data, CNeg(voltage_delta))]

\* The loss as a sum of abs() terms over the potentials; the last value of
\* the heap is the loss.
LossShapes == {"dependent", "sum", "each"}

EpochLossValue(h, shape, param, dependent) ==
    CASE shape = "dependent" -> Value_abs(h, dependent)
      [] shape = "sum" -> Value_abs(Value_plus(h, param, dependent), Len(h) + 1)
      [] OTHER ->
             LET h2 == Value_abs(Value_abs(h, param), dependent)
             IN  Value_plus(h2, Len(h) + 1, Len(h) + 2)

InitEpoch ==
    /\ \E voltage_delta \in {CInt(3), CInt(6)} :
           /\ heap = Value_plus_complex(<<Value_init(CZero, <<>>, "")>>, 1,
                                        CNeg(voltage_delta))
           /\ sv = [pc |-> "loss", param |-> 1, dependent |-> 2,
                    voltage_delta |-> voltage_delta]
    /\ iv = [op |-> "", x |-> short_circuit, y |-> short_circuit, res |-> Ret(short_circuit)]
    /\ roots = {}
    /\ last = NoCall
    /\ nops = 0
    /\ branches = <<>>
    /\ node_potentials = <<>>
    /\ node_currents = <<>>
    /\ branch_currents = <<>>
    /\ reference_node = 0
    /\ params = <<>>
    /\ history = <<>>

\* loss = self._loss(omega); history.append(...); the break test
EpochLoss ==
    \E shape \in LossShapes :
        /\ sv.pc = "loss"
        /\ Len(history) < MaxEpochs
        /\ heap' = EpochLossValue(heap, shape, sv.param, sv.dependent)
        /\ history' = Append(history, CReal(heap'[Len(heap')].data))
        /\ sv' = [sv EXCEPT !.pc = IF loop_break(history, CReal(heap'[Len(heap')].data))
                                   THEN "done" ELSE "grad"]
        /\ UNCHANGED <<client_vars, branches, node_potentials, node_currents,
                       branch_currents, reference_node, params>>

\* self.optimizer.zero_grad(); loss.backward()
EpochGrad ==
    \E reversed \in BOOLEAN :
        /\ sv.pc = "grad"
        /\ heap' = backward(zero_grad(heap, {sv.param}), Len(heap), reversed)
        /\ sv' = [sv EXCEPT !.pc = "step"]
        /\ UNCHANGED <<client_vars, branches, node_potentials, node_currents,
                       branch_currents, reference_node, params, history>>

\* self.optimizer.step(...); self._update_dependent_nodes()
EpochStep ==
    \E x \in ParamValues :
        /\ sv.pc = "step"
        /\ heap' = update_dependent_node([heap EXCEPT ![sv.param].data = x],
                                           sv.dependent, sv.voltage_delta)
        /\ sv' = [sv EXCEPT !.pc = "loss"]
        /\ UNCHANGED <<client_vars, branches, node_potentials, node_currents,
                       branch_currents, reference_node, params, history>>

NextEpoch == EpochLoss \/ EpochGrad \/ EpochStep

SpecEpoch == InitEpoch /\ [][NextEpoch]_vars

\* the gradients backward leaves when no value holds a gradient before it
FreshGradient(h, loss, reversed) ==
    backward(zero_grad(h, DOMAIN h), loss, reversed)

\* C25: when step() runs, the gradient the parameter holds is the gradient
\* of this epoch's loss alone, also when the parameter reaches the loss
\* through the dependent potential made at construction.
C25_EpochGradient ==
    sv.pc = "step" =>
        \A reversed \in BOOLEAN :
            heap[sv.param].grad = FreshGradient(heap, Len(heap), reversed)[sv.param].grad


----------------------------------------------------------------------------
(* Several solvers in one process (SpecShared).  node_potentials,          *)
(* node_currents, branch_currents and components are attributes of the     *)
(* class CircuitSolver: the variables of those names are the one dict each *)
(* that every instance reads and writes.  branches, reference_node and     *)
(* params are the attributes of the instance constructed last, and         *)
(* sv.instances keeps them for every instance.                             *)

MaxSolvers == 2

\* reduce_circuit: the alternating passes after the first two
RECURSIVE reduce_circuit_loop(_, _, _, _)
reduce_circuit_loop(h, reduced_branches, series_next, branch_count) ==
    LET continue(r) ==
            IF r.exc # "" \/ Len(r.val) = branch_count THEN r
            ELSE reduce_circuit_loop(r.h, r.val, ~series_next, Len(r.val))
    IN  continue(IF series_next THEN _reduce_series(h, reduced_branches)
                 ELSE _reduce_parallel(h, reduced_branches))

reduce_circuit(h, initial_branches) ==
    LET loop(r) ==
            IF r.exc # "" THEN r ELSE reduce_circuit_loop(r.h, r.val, TRUE, Len(r.val))
        parallel(r) == IF r.exc # "" THEN r ELSE loop(_reduce_parallel(r.h, r.val))
    IN  parallel(_reduce_series(h, initial_branches))

\* Circuit c with its leaves at the heap positions after leaf_offset and
\* with node_offset added to its node identifiers.
Relocated(c, leaf_offset, node_offset) ==
    [leaves |-> c.leaves,
     branches |->
         [j \in DOMAIN c.branches |->
             BranchArgs(c.branches[j].source + node_offset,
                        c.branches[j].sink + node_offset,
                        [i \in DOMAIN c.branches[j].components |->
                            c.branches[j].components[i] + leaf_offset])]]

SharedCircuits == {ReversedSource, OpenBranch, Star, Bridge, SourceChain}
NodeOffsets == {0, 4}

\* self.components[component.label] = component for the leaves of brs, on
\* the dict components as it is
components_update(components, leaves) ==
    components \o SelectSeq(leaves, LAMBDA x : list_index(components, x) = 0)

InitShared ==
    /\ iv = [op |-> "", x |-> short_circuit, y |-> short_circuit, res |-> Ret(short_circuit)]
    /\ heap = <<>>
    /\ sv = [pc |-> "client", instances |-> <<>>, components |-> <<>>, exc |-> ""]
    /\ roots = {}
    /\ last = NoCall
    /\ nops = 0
    /\ branches = <<>>
    /\ node_potentials = <<>>
    /\ node_currents = <<>>
    /\ branch_currents = <<>>
    /\ reference_node = 0
    /\ params = <<>>
    /\ history = <<>>

\* The client creates the components of a circuit and its Branch list and
\* calls CircuitSolver(branches).
SharedConstruct ==
    \E c \in SharedCircuits, node_offset \in NodeOffsets :
        LET args == Relocated(c, Len(heap), node_offset).branches
            init(r, st) ==
                /\ heap' = r.h
                /\ node_potentials' = st.node_potentials
                /\ branch_currents' = st.branch_currents
                /\ IF st.exc # ""
                   THEN /\ sv' = [sv EXCEPT !.exc = st.exc,
                                     !.components = components_update(
                                         @, _init_components_dict(r.h, r.val, 1))]
                        /\ UNCHANGED <<branches, reference_node, params>>
                   ELSE /\ branches' = r.val
                        /\ reference_node' = st.reference_node
                        /\ params' = _init_optimizer(st.node_potentials,
                                                     st.branch_currents, st.reference_node)
                        /\ sv' = [sv EXCEPT
                                     !.exc = "",
                                     !.components = components_update(
                                         @, _init_components_dict(r.h, r.val, 1)),
                                     !.instances = Append(@,
                                         [branches |-> r.val,
                                          reference_node |-> st.reference_node,
                                          params |-> params'])]
            reduced(r) ==
                IF r.exc # ""
                THEN /\ heap' = r.h
                     /\ sv' = [sv EXCEPT !.exc = r.exc]
                     /\ UNCHANGED <<branches, node_potentials, branch_currents,
                                    reference_node, params>>
                ELSE init(r, _init_nodes(r.h, r.val, node_potentials, branch_currents))
            built(b) == reduced(IF b.exc # "" THEN b ELSE reduce_circuit(b.h, b.val))
        IN  /\ Len(sv.instances) < MaxSolvers
            /\ nops < MaxSolvers
            /\ nops' = nops + 1
            /\ built(build_branches(heap \o Leaves(c), args, 1, <<>>))
            /\ UNCHANGED <<iv, roots, last, node_currents, history>>

NextShared == SharedConstruct

SpecShared == InitShared /\ [][NextShared]_vars

\* the node identifiers of a branch list, and the keys of a dict
BranchNodes(brs) ==
    {brs[j].source : j \in DOMAIN brs} \cup {brs[j].sink : j \in DOMAIN brs}

Keys(d) == {d[i].key : i \in DOMAIN d}

\* the class dicts hold entries of the instance inst only
OwnEntries(h, inst) ==
    /\ Keys(node_potentials) \subseteq BranchNodes(inst.branches)
    /\ Keys(node_currents) \subseteq BranchNodes(inst.branches)
    /\ Keys(branch_currents) \subseteq
           {j \in DOMAIN inst.branches :
                h[inst.branches[j].components].kind = "IDEAL_VOLTAGE_SOURCE"}
    /\ \A i \in DOMAIN sv.components :
           list_index(_init_components_dict(h, inst.branches, 1), sv.components[i]) # 0

\* C26: the dicts an instance reads hold entries for its own reduced branch
\* list only, and the construction of a solver leaves the entries that the
\* instances constructed before it read as they were.
C26_InstanceDicts ==
    /\ [](\A k \in DOMAIN sv.instances : OwnEntries(heap, sv.instances[k]))
    /\ [][sv.instances # <<>> =>
              /\ node_potentials' = node_potentials
              /\ node_currents' = node_currents
              /\ branch_currents' = branch_currents
              /\ sv'.components = sv.components]_vars


\* the leaf components in the bodies of the branch list brs, body by body
BranchLeaves(h, brs) == _init_components_dict(h, brs, 1)

\* C27: after every pass of the reducer and in the list reduce_circuit
\* returns, every leaf of the input is in exactly one body, once, and the
\* bodies hold no other leaf.
C27_ReducerKeepsLeaves ==
    (sv.pc \in {"reduce", "init"}) =>
        /\ \A x \in DOMAIN sv.circuit.leaves :
               Cardinality({i \in DOMAIN BranchLeaves(heap, branches) :
                               BranchLeaves(heap, branches)[i] = x}) = 1
        /\ \A i \in DOMAIN BranchLeaves(heap, branches) :
               BranchLeaves(heap, branches)[i] \in DOMAIN sv.circuit.leaves


\* the branches of E, by index in self.branches, form no cycle: a branch
\* that alone reaches one of its end nodes is on no cycle and is set aside,
\* until no branch is left
RECURSIVE IsForest(_)
IsForest(E) ==
    LET ends(j) == {branches[j].source, branches[j].sink}
        pendant == {j \in E : /\ branches[j].source # branches[j].sink
                              /\ \E n \in ends(j) : \A k \in E \ {j} : n \notin ends(k)}
    IN  IF E = {} THEN TRUE
        ELSE IF pendant = {} THEN FALSE
        ELSE IsForest(E \ pendant)

\* C28: _init_nodes raises the configuration error only when the
\* ideal-voltage-source branches hold a loop; a list whose source branches
\* form no cycle is accepted in whatever order it is given.
C28_AcyclicSourcesAccepted ==
    (sv.pc = "init" /\ IsForest(SourceBranches)) =>
        VoltageSourcePass(Len(branches)).exc = ""


\* the components below composite id: its children and theirs
RECURSIVE Descendants(_, _)
Descendants(h, id) ==
    LET below == {h[id].components[i] : i \in DOMAIN h[id].components}
                     \cup (IF h[id].fixed # 0 THEN {h[id].fixed} ELSE {})
    IN  below \cup UNION {Descendants(h, c) : c \in below}

\* C29: apply_voltage (recursive) on a series whose own characteristic is
\* not fixed-voltage completes and leaves a state on every descendant, also
\* when a regular child has a fixed-current characteristic.
C29_SeriesApplyVoltage ==
    (/\ last.op = "apply_voltage"
     /\ heap[last.a].kind = "SERIES"
     /\ heap[last.a].has_char
     /\ ~has_fixed_voltage(heap[last.a].char))
    => /\ last.exc = ""
       /\ \A d \in Descendants(heap, last.a) : heap[d].has_state


\* the characteristic of component id at omega calculated anew: no object
\* of the heap holds a cached characteristic
FreshCharacteristic(h, id, omega) ==
    current_voltage_characteristic(
        [i \in DOMAIN h |-> [h[i] EXCEPT !.has_char = FALSE]], id, omega, TRUE)

\* C30: the characteristic a call returns is the one the component has at
\* the moment of the call, also after a child was added to the composite
\* or flipped since the characteristic was last calculated.
C30_CharacteristicIsCurrent ==
    (last.op = "characteristic" /\ last.exc = "") =>
        last.char = FreshCharacteristic(heap, last.a, last.omega).val

====
